---- MODULE Spec2Model ----
(***************************************************************************)
(* Control plane of sabi-tui: the App aggregate (src/src/app.rs), the TUI  *)
(* event loop run_loop and the single-shot mode run_quick_mode             *)
(* (src/src/main.rs), and the MCP subclient (src/src/mcp.rs).              *)
(*                                                                         *)
(* Specifications:                                                         *)
(*   SpecApp   - the App object driven through its public methods, as the  *)
(*               unit tests of app.rs drive it;                            *)
(*   Spec      - the TUI session: run_loop with its background tasks;      *)
(*   SpecLoop  - Spec with the /model command and the Tick, Resize and     *)
(*               CommandCancelled events;                                  *)
(*   SpecFair  - Spec with tasks that post, events that are handled and    *)
(*               reviews that are decided;                                 *)
(*   SpecQuick - main's -q / -x dispatch and run_quick_mode;               *)
(*   SpecStale - the ApiResponse handler taking a late completion;         *)
(*   SpecMcp   - the MCP subclient under two threads;                      *)
(*   SpecMcpFair   - SpecMcp with the deadline of the wait loop;           *)
(*   SpecMcpAll    - start_all and list_all_tools, by one caller;          *)
(*   SpecMcpConfig - the editing methods of McpConfig.                     *)
(***************************************************************************)
EXTENDS Integers, Sequences, FiniteSets, TLC

VARIABLES
    state,                      \* App.state
    input_textarea,             \* App.input_textarea: its lines, cursor at the end
    action_textarea,            \* App.action_textarea: its lines
    messages,                   \* App.messages
    error_message,              \* App.error_message (None or Some(text))
    spinner_frame,              \* App.spinner_frame
    dangerous_command_detected, \* App.dangerous_command_detected
    current_tool,               \* App.current_tool (None or Some(ToolCall))
    running_task,               \* App.running_task (None or Some(task handle))
    safe_mode,                  \* App.config.safe_mode
    python_available,           \* App.python_available
    mcp_client,                 \* App.mcp_client.is_some()
    ai_client,                  \* run_loop's ai_client (None or Some(client))
    queue,                      \* the event channel: completions posted, not yet handled
    chat_tasks,                 \* spawned chat tasks that have not posted yet
    models_tasks,               \* spawned list_models tasks that have not posted: their model_arg
    exec_tasks,                 \* spawned executor / MCP tasks that have not posted yet
    ev,                         \* the operation or event handled last (history)
    ret,                        \* what the operation handled last returned (history)
    quick,                      \* the single-shot run: main's arguments and position
    processes,                  \* McpClient.processes: server name -> McpProcess
    mutex,                      \* the Mutex around processes: 0 or the thread holding it
    children,                   \* every child process spawned, by pid
    wire,                       \* per server name, the requests written to its stdin
    threads,                    \* the threads calling the McpClient
    config                      \* an McpConfig being edited, and the file it is saved to

app_vars == <<state, input_textarea, action_textarea, messages, error_message,
              spinner_frame, dangerous_command_detected, current_tool,
              running_task, safe_mode, python_available, mcp_client>>
loop_vars == <<ai_client, queue, chat_tasks, exec_tasks, models_tasks>>
mcp_vars == <<processes, mutex, children, wire, threads, config>>
vars == <<app_vars, loop_vars, ev, ret, quick, mcp_vars>>

----------------------------------------------------------------------------
(* Bounds of the model *)

\* keys typed into the input buffer before it is submitted
MaxInput == 2
\* length of the message log at which the session is no longer followed
MaxMessages == 5
\* keys typed into the input buffer of the TUI before it is submitted
MaxKeys == 1
\* submissions made on the bare App object (SpecApp)
MaxAppMessages == 1

None == [some |-> FALSE]
Some(v) == [some |-> TRUE, value |-> v]

----------------------------------------------------------------------------
(* Text: a string is a sequence of characters (or of opaque fragments) *)

InputChars == {" ", "\t", "a"}
NewlineChars == {"\n", "\r"}
Whitespace == {" ", "\t", "\n", "\r"}

\* str::trim: drop leading and trailing whitespace
RECURSIVE TrimStart(_)
TrimStart(s) ==
    IF s = <<>> THEN <<>>
    ELSE IF Head(s) \in Whitespace THEN TrimStart(Tail(s)) ELSE s

RECURSIVE TrimEnd(_)
TrimEnd(s) ==
    IF s = <<>> THEN <<>>
    ELSE IF s[Len(s)] \in Whitespace THEN TrimEnd(SubSeq(s, 1, Len(s) - 1)) ELSE s

Trim(s) == TrimEnd(TrimStart(s))

\* lines.join("\n")
RECURSIVE JoinLines(_)
JoinLines(lines) ==
    IF lines = <<>> THEN <<>>
    ELSE IF Len(lines) = 1 THEN lines[1]
    ELSE lines[1] \o <<"\n">> \o JoinLines(Tail(lines))

\* str::lines(): split at "\n"; a final "\n" opens no further line
RECURSIVE SplitLines(_, _)
SplitLines(s, cur) ==
    IF s = <<>> THEN (IF cur = <<>> THEN <<>> ELSE <<cur>>)
    ELSE IF Head(s) = "\n" THEN <<cur>> \o SplitLines(Tail(s), <<>>)
    ELSE SplitLines(Tail(s), Append(cur, Head(s)))

\* TextArea::default(): one empty line
TextAreaDefault == << <<>> >>

\* TextArea::insert_char at the end of the buffer; a newline key opens a line
insert_char(ta, c) ==
    IF c \in NewlineChars THEN Append(ta, <<>>)
    ELSE [ta EXCEPT ![Len(ta)] = Append(@, c)]

\* number of keys that built the buffer
RECURSIVE KeysIn(_)
KeysIn(ta) ==
    IF ta = <<>> THEN 0
    ELSE Len(Head(ta)) + (IF Len(ta) > 1 THEN 1 ELSE 0) + KeysIn(Tail(ta))

----------------------------------------------------------------------------
(* Messages *)

Message(role, content) == [role |-> role, content |-> content]
MessageUser(content) == Message("user", content)
MessageModel(content) == Message("model", content)
MessageSystem(content) == Message("system", content)

----------------------------------------------------------------------------
(* Session state machine *)

AppState == {"Input", "Thinking", "ReviewAction", "Executing", "Finalizing"}

StateEvent(name) == [name |-> name, is_empty |-> FALSE]
SubmitInput(is_empty) == [name |-> "SubmitInput", is_empty |-> is_empty]
StateEvents ==
    {SubmitInput(b) : b \in BOOLEAN} \cup
    {StateEvent(n) : n \in {"ToolCallReceived", "TextResponseReceived", "ApiError",
                            "ExecuteConfirmed", "ExecuteCancelled",
                            "CommandComplete", "AnalysisComplete"}}

Success(s) == [kind |-> "Success", state |-> s]
Ignored == [kind |-> "Ignored"]

\* state::transition, the pure function (state, event) -> TransitionResult
transition(current, event) ==
    CASE current = "Input" /\ event = SubmitInput(FALSE) -> Success("Thinking")
      [] current = "Input" /\ event = SubmitInput(TRUE) -> Ignored
      [] current = "Thinking" /\ event.name = "ToolCallReceived" -> Success("ReviewAction")
      [] current = "Thinking" /\ event.name = "TextResponseReceived" -> Success("Input")
      [] current = "Thinking" /\ event.name = "ApiError" -> Success("Input")
      [] current = "ReviewAction" /\ event.name = "ExecuteConfirmed" -> Success("Executing")
      [] current = "ReviewAction" /\ event.name = "ExecuteCancelled" -> Success("Input")
      [] current = "Executing" /\ event.name = "CommandComplete" -> Success("Finalizing")
      [] current = "Finalizing" /\ event.name = "ApiError" -> Success("Input")
      [] current = "Finalizing" /\ event.name = "AnalysisComplete" -> Success("Input")
      [] current = "Finalizing" /\ event.name = "TextResponseReceived" -> Success("Input")
      [] current = "Finalizing" /\ event.name = "ToolCallReceived" -> Success("ReviewAction")
      [] OTHER -> Ignored

----------------------------------------------------------------------------
(* App: the methods of app.rs as functions of the fields they read and      *)
(* write.  An App value `a` is a record of the fields a method touches.      *)

AppFields == [state |-> state, input_textarea |-> input_textarea,
              action_textarea |-> action_textarea,
              messages |-> messages, error_message |-> error_message,
              dangerous_command_detected |-> dangerous_command_detected,
              current_tool |-> current_tool, running_task |-> running_task]

\* App::get_input_text
get_input_text(a) == Trim(JoinLines(a.input_textarea))

\* is_input_empty without the trim: only the empty buffer counts as empty
is_input_empty_untrimmed(a) == JoinLines(a.input_textarea) = <<>>

\* App::is_input_empty
is_input_empty(a) == get_input_text(a) = <<>>

\* App::clear_input
clear_input(a) == [a EXCEPT !.input_textarea = TextAreaDefault]

\* a log that keeps only its newest message
add_message_replace(a, m) == [a EXCEPT !.messages = <<m>>]

\* App::add_message
add_message(a, m) == [a EXCEPT !.messages = Append(@, m)]

\* App::set_error
set_error(a, msg) == [a EXCEPT !.error_message = Some(msg)]

\* App::transition storing the target state of SubmitInput whatever the result
AppTransition_unchecked(a, event) ==
    LET r == transition(a.state, event) IN
    CASE r.kind = "Success" -> [app |-> [a EXCEPT !.state = r.state], ret |-> TRUE]
      [] event.name = "SubmitInput" /\ ~event.is_empty ->
            [app |-> [a EXCEPT !.state = "Thinking"], ret |-> TRUE]
      [] OTHER -> [app |-> a, ret |-> FALSE]

\* App::transition; yields the App after the call and the returned bool
AppTransition(a, event) ==
    LET r == transition(a.state, event) IN
    CASE r.kind = "Success" -> [app |-> [a EXCEPT !.state = r.state], ret |-> TRUE]
      [] r.kind = "Ignored" -> [app |-> a, ret |-> FALSE]
      [] OTHER -> [app |-> set_error(a, r.msg), ret |-> FALSE]

\* submit_input pushing the raw buffer and keeping it
submit_input_raw(a) ==
    LET is_empty == is_input_empty(a)
        a1 == IF ~is_empty
              THEN add_message(a, MessageUser(JoinLines(a.input_textarea)))
              ELSE a
    IN AppTransition(a1, SubmitInput(is_empty))

\* App::submit_input
submit_input(a) ==
    LET is_empty == is_input_empty(a)
        a1 == IF ~is_empty
              THEN clear_input(add_message(a, MessageUser(get_input_text(a))))
              ELSE a
    IN AppTransition(a1, SubmitInput(is_empty))

\* the number of spinner frames
SPINNER_FRAMES == 10
\* a spinner frame that advances by two
tick_spinner_skip(frame) == (frame + 2) % SPINNER_FRAMES
\* App::tick_spinner
tick_spinner(frame) == (frame + 1) % SPINNER_FRAMES

\* write the fields of an App value back
StoreApp(a) ==
    /\ state' = a.state
    /\ input_textarea' = a.input_textarea
    /\ action_textarea' = a.action_textarea
    /\ messages' = a.messages
    /\ error_message' = a.error_message
    /\ dangerous_command_detected' = a.dangerous_command_detected
    /\ current_tool' = a.current_tool
    /\ running_task' = a.running_task

\* App::clear_action
clear_action(a) ==
    [a EXCEPT !.action_textarea = TextAreaDefault,
              !.dangerous_command_detected = FALSE]

\* App::set_action_text: one buffer line per line of the text
set_action_text(a, text) ==
    LET ls == SplitLines(text, <<>>) IN
    [a EXCEPT !.action_textarea = IF ls = <<>> THEN TextAreaDefault ELSE ls]

----------------------------------------------------------------------------
(* Construction *)

\* App::new: the fields after construction
InitApp ==
    /\ state = "Input"
    /\ input_textarea = TextAreaDefault
    /\ action_textarea = TextAreaDefault
    /\ error_message = None
    /\ spinner_frame = 0
    /\ dangerous_command_detected = FALSE
    /\ current_tool = None
    /\ running_task = None

NoEv == [type |-> "init", from |-> "Input", arg |-> <<>>]
Ev(type, arg) == [type |-> type, from |-> state, arg |-> arg]

NoQuick == [pc |-> "off"]

\* a map with no entry
EmptyMap == [k \in {} |-> 0]

\* McpConfig::default(), no file written
NoConfig == [servers |-> EmptyMap, file |-> EmptyMap, ops |-> 0]

\* no McpClient is in use
McpOff ==
    /\ processes = <<>>
    /\ mutex = 0
    /\ children = <<>>
    /\ wire = <<>>
    /\ threads = <<>>
    /\ config = NoConfig

----------------------------------------------------------------------------
(* SpecApp: the App object driven through its public methods *)

ErrorTexts == {<<"Network error">>}

InitAppOnly ==
    /\ InitApp
    /\ messages = <<>>
    /\ safe_mode = FALSE
    /\ python_available = FALSE
    /\ mcp_client = FALSE
    /\ ai_client = None
    /\ queue = <<>>
    /\ chat_tasks = {}
    /\ models_tasks = <<>>
    /\ exec_tasks = {}
    /\ ev = NoEv
    /\ ret = FALSE
    /\ quick = NoQuick
    /\ McpOff

app_frame == <<spinner_frame, safe_mode, python_available, mcp_client,
               loop_vars, quick, mcp_vars>>

\* input_textarea.insert_char(c), as the tests fill the buffer
AppInsertChar ==
    \E c \in InputChars \cup NewlineChars :
        /\ KeysIn(input_textarea) < MaxInput
        /\ StoreApp([AppFields EXCEPT !.input_textarea = insert_char(@, c)])
        /\ ev' = Ev("insert_char", <<c>>)
        /\ UNCHANGED <<ret, app_frame>>

\* app.submit_input()
AppSubmitInput ==
    /\ Len(messages) < MaxAppMessages
    /\ LET r == submit_input(AppFields) IN
        /\ StoreApp(r.app)
        /\ ret' = r.ret
    /\ ev' = Ev("submit_input", JoinLines(input_textarea))
    /\ UNCHANGED app_frame

\* app.transition(event)
AppTransitionCall ==
    \E e \in StateEvents :
        /\ LET r == AppTransition(AppFields, e) IN
            /\ StoreApp(r.app)
            /\ ret' = r.ret
        /\ ev' = Ev("transition", e)
        /\ UNCHANGED app_frame

\* app.set_error(msg)
AppSetError ==
    \E msg \in ErrorTexts :
        /\ StoreApp(set_error(AppFields, msg))
        /\ ev' = Ev("set_error", msg)
        /\ UNCHANGED <<ret, app_frame>>

NextApp ==
    \/ AppInsertChar
    \/ AppSubmitInput
    \/ AppTransitionCall
    \/ AppSetError

SpecApp == InitAppOnly /\ [][NextApp]_vars

----------------------------------------------------------------------------
(* Tool calls and LLM replies *)

Ok(v) == [ok |-> TRUE, value |-> v]
Err(e) == [ok |-> FALSE, error |-> e]

\* a ToolCall with the argument in the field its tool reads
ToolCall(tool, arg) ==
    [tool |-> tool,
     command |-> IF tool = "run_cmd" THEN arg ELSE "",
     code |-> IF tool = "run_python" THEN arg ELSE "",
     path |-> IF tool \in {"read_file", "write_file"} THEN arg ELSE "",
     pattern |-> IF tool = "search" THEN arg ELSE "",
     server |-> IF tool = "mcp" THEN "fs" ELSE "",
     name |-> IF tool = "mcp" THEN arg ELSE ""]

\* the tool-call objects an LLM reply may carry: (tool, argument)
ToolArgs ==
    { <<"run_cmd", "ls">>, <<"run_cmd", "vim foo.txt">>, <<"run_cmd", "rm -rf /">>,
      <<"run_python", "print(1)">>, <<"write_file", "a.txt">>, <<"mcp", "read">>,
      <<"launch_missiles", "now">> }

\* the reply text holding one JSON object with a "tool" field
ToolJson(tool, arg) == <<"{\"tool\":", tool, arg>>

\* reply texts of the LLM: plain text, tool-call JSON, JSON that does not decode
Replies ==
    { <<"hello">> } \cup { ToolJson(t[1], t[2]) : t \in ToolArgs }

\* display strings of LLM errors (AIError's Display)
ApiErrors == { <<"request failed">> }

ChatResponses == { Ok(r) : r \in Replies } \cup { Err(e) : e \in ApiErrors }

\* ParsedResponse::parse
Parse(text) ==
    IF Len(text) = 3 /\ text[1] = "{\"tool\":"
    THEN [kind |-> "ToolCall", tc |-> ToolCall(text[2], text[3])]
    ELSE [kind |-> "TextResponse", text |-> text]

\* ToolCall::is_run_cmd, is_mcp, is_allowed_tool, is_destructive
is_run_cmd(tc) == tc.tool = "run_cmd"
is_mcp(tc) == tc.tool = "mcp"
AllowedTools == {"run_cmd", "read_file", "write_file", "search", "run_python", "mcp"}
is_allowed_tool(tc) == tc.tool \in AllowedTools
is_destructive(tc) == tc.tool = "write_file"

\* InteractiveCommandDetector::is_interactive
is_interactive(command) == command \in {"vim foo.txt"}

\* DangerousCommandDetector::is_dangerous over config.dangerous_patterns
is_dangerous(command) == command \in {"rm -rf /"}

\* results an executor task may post
ExecutionResults ==
    { [exit_code |-> 0, success |-> TRUE, stdout |-> "a\nb\n", stderr |-> ""],
      [exit_code |-> 2, success |-> FALSE, stdout |-> "", stderr |-> "No such file"] }

\* results an MCP task may post
McpResults == { Ok("{\"content\":\"ok\"}"), Err("Timeout") }

----------------------------------------------------------------------------
(* Background tasks and the event channel.  A task that completes posts its *)
(* event to the channel; nothing reads the payload of a queued event before  *)
(* the loop takes it, so the response or result an event carries is drawn    *)
(* when the loop takes the event.                                            *)

Event(type, arg) == [type |-> type, arg |-> arg]

\* the session is followed until its log holds MaxMessages messages
SessionOpen == Len(messages) < MaxMessages

TaskIds(tasks) == { t.id : t \in tasks }

\* a handle no live task and no kept JoinHandle uses
FreshId(used) == CHOOSE i \in 1..(Cardinality(used) + 1) : i \notin used

UsedIds ==
    TaskIds(chat_tasks) \cup TaskIds(exec_tasks) \cup
    (IF running_task.some THEN {running_task.value} ELSE {})

\* tokio::spawn of client.chat(&messages): the task holds a clone of the log
SpawnChat(tasks, msgs) ==
    tasks \cup { [id |-> FreshId(UsedIds), messages |-> msgs] }

\* tokio::spawn / spawn_blocking of an execution
SpawnExec(tasks, id, kind, tool) ==
    tasks \cup { [id |-> id, kind |-> kind, tool |-> tool] }

----------------------------------------------------------------------------
(* Key handling *)

\* /model commands entered in a session
MaxModelsTasks == 1

KeyChars == {" ", "a"}
\* the /model command entered, with or without a model name
ModelKeys == {"/model", "/model b", "/model x"}
Keys == KeyChars \cup {"Enter", "Esc"}

\* the model_arg of InputResult::FetchModels
ModelArg(key) ==
    CASE key = "/model b" -> Some(<<"b">>)
      [] key = "/model x" -> Some(<<"x">>)
      [] OTHER -> None

\* model names, as their characters
ModelA == <<"g", "a">>
ModelB == <<"g", "b">>

\* App::handle_key_event: the App after the key, the InputResult, the task aborted
handle_key_event(a, key) ==
    CASE a.state = "Input" /\ key \in KeyChars ->
            [app |-> [a EXCEPT !.input_textarea = insert_char(@, key)],
             result |-> "None", aborted |-> None]
      [] a.state = "Input" /\ key = "Enter" ->
            LET r == submit_input(a) IN
            [app |-> r.app,
             result |-> IF r.ret THEN "SubmitQuery" ELSE "None", aborted |-> None]
      [] a.state = "ReviewAction" /\ key = "Enter" ->
            [app |-> AppTransition(a, StateEvent("ExecuteConfirmed")).app,
             result |-> "ExecuteCommand", aborted |-> None]
      [] a.state = "ReviewAction" /\ key = "Esc" ->
            [app |-> clear_action(AppTransition(a, StateEvent("ExecuteCancelled")).app),
             result |-> "None", aborted |-> None]
      [] a.state = "Executing" /\ key = "Esc" ->
            [app |-> [a EXCEPT !.running_task = None],
             result |-> "CancelCommand", aborted |-> a.running_task]
      [] a.state = "Input" /\ key \in ModelKeys ->
            [app |-> clear_input(a), result |-> "FetchModels", aborted |-> None]
      [] OTHER -> [app |-> a, result |-> "None", aborted |-> None]

\* JoinHandle::abort: a task that has not posted yet never posts
Abort(tasks, handle) ==
    IF handle.some THEN { t \in tasks : t.id # handle.value } ELSE tasks

\* the "would ..." line of safe mode
SafeModeDesc(tool) ==
    CASE tool.tool = "run_cmd" -> <<"Would run: ", tool.command>>
      [] tool.tool = "run_python" -> <<"Would run Python:", "\n", tool.code>>
      [] tool.tool = "read_file" -> <<"Would read: ", tool.path>>
      [] tool.tool = "write_file" -> <<"Would write ", "bytes to: ", tool.path>>
      [] tool.tool = "search" -> <<"Would search '", tool.pattern, "' in ", "">>
      [] tool.tool = "mcp" -> <<"Would call MCP: ", tool.server, "/", tool.name>>
      [] OTHER -> <<"Would execute: ", tool.tool>>

\* run_loop, Event::Key with result CancelCommand
KeyCancelCommand(a) ==
    /\ StoreApp(AppTransition(add_message(a, MessageSystem(<<"Command cancelled">>)),
                              StateEvent("AnalysisComplete")).app)
    /\ UNCHANGED chat_tasks

\* run_loop, Event::Key with result FetchModels: the list_models task is spawned
\* by HandleKey when there is a client
KeyFetchModels(a) ==
    /\ StoreApp(IF ai_client.some THEN a
                ELSE add_message(a, MessageSystem(<<"API key not configured">>)))
    /\ UNCHANGED <<chat_tasks, exec_tasks>>

\* run_loop, Event::Key with result SubmitQuery
KeySubmitQuery(a) ==
    IF ai_client.some
    THEN /\ StoreApp(a)
         /\ chat_tasks' = SpawnChat(chat_tasks, a.messages)
    ELSE /\ StoreApp(AppTransition(set_error(a, <<"API key not configured">>),
                                   StateEvent("ApiError")).app)
         /\ UNCHANGED chat_tasks

\* run_loop, Event::Key with result ExecuteCommand and a pending tool:
\* the App after it and the execution task spawned, if one is
ExecuteCommand(a, tool) ==
    IF safe_mode
    THEN [app |-> AppTransition(
                     add_message(a, MessageSystem(<<"[SAFE MODE] ">> \o SafeModeDesc(tool))),
                     StateEvent("AnalysisComplete")).app,
          spawn |-> "none"]
    ELSE IF is_mcp(tool)
    THEN IF mcp_client
         THEN [app |-> a, spawn |-> "mcp"]
         ELSE [app |-> AppTransition(
                          add_message(a, MessageSystem(<<"MCP client not available">>)),
                          StateEvent("AnalysisComplete")).app,
               spawn |-> "none"]
    ELSE [app |-> [a EXCEPT !.running_task = Some(FreshId(UsedIds))],
          spawn |-> "executor"]

KeyExecuteCommand(a) ==
    LET x == ExecuteCommand(a, a.current_tool.value) IN
    /\ StoreApp(x.app)
    /\ exec_tasks' =
         IF x.spawn = "none" THEN exec_tasks
         ELSE SpawnExec(exec_tasks, FreshId(UsedIds), x.spawn, a.current_tool.value)

\* run_loop, Event::Key: what follows handle_key_event, with a pending tool
\* executed whatever the key's result
KeyDispatch_anyresult(h) ==
    CASE h.result = "CancelCommand" ->
            /\ KeyCancelCommand(h.app)
            /\ exec_tasks' = Abort(exec_tasks, h.aborted)
      [] h.result = "FetchModels" -> KeyFetchModels(h.app)
      [] h.result = "SubmitQuery" ->
            /\ KeySubmitQuery(h.app)
            /\ UNCHANGED exec_tasks
      [] h.app.current_tool.some ->
            /\ KeyExecuteCommand(h.app)
            /\ UNCHANGED chat_tasks
      [] OTHER ->
            /\ StoreApp(h.app)
            /\ UNCHANGED <<chat_tasks, exec_tasks>>

\* run_loop, Event::Key: what follows handle_key_event
KeyDispatch(h) ==
    CASE h.result = "CancelCommand" ->
            /\ KeyCancelCommand(h.app)
            /\ exec_tasks' = Abort(exec_tasks, h.aborted)
      [] h.result = "FetchModels" -> KeyFetchModels(h.app)
      [] h.result = "SubmitQuery" ->
            /\ KeySubmitQuery(h.app)
            /\ UNCHANGED exec_tasks
      [] h.result = "ExecuteCommand" /\ h.app.current_tool.some ->
            /\ KeyExecuteCommand(h.app)
            /\ UNCHANGED chat_tasks
      [] OTHER ->
            /\ StoreApp(h.app)
            /\ UNCHANGED <<chat_tasks, exec_tasks>>

\* run_loop, Event::Key
HandleKey ==
    \E key \in Keys :
        LET h == handle_key_event(AppFields, key) IN
        /\ SessionOpen
        /\ key \in KeyChars => KeysIn(input_textarea) < MaxKeys
        /\ ev' = Ev("Key", <<key, h.result>>)
        /\ ret' = FALSE
        /\ KeyDispatch(h)
        /\ UNCHANGED <<spinner_frame, safe_mode, python_available, mcp_client,
                       ai_client, queue, models_tasks, quick, mcp_vars>>

\* the messages the /model command leaves in the log
ModelsMessageHeads ==
    { "API key not configured", "Failed to fetch models: ", "Switched to: ",
      "Model '", "Available models:\n" }

\* the /model commands entered so far: in the log, queued, or being fetched
ModelsIssued ==
    Cardinality({ i \in 1..Len(messages) :
                    messages[i].role = "system" /\ messages[i].content[1] \in ModelsMessageHeads })
    + Cardinality({ i \in 1..Len(queue) : queue[i].type = "ModelsResponse" })
    + Len(models_tasks)

\* run_loop, Event::Key, for the key that enters a /model command
HandleModelKey ==
    \E key \in ModelKeys :
        LET h == handle_key_event(AppFields, key) IN
        /\ SessionOpen
        /\ ModelsIssued < MaxModelsTasks
        /\ ev' = Ev("Key", <<key, h.result>>)
        /\ ret' = FALSE
        /\ KeyDispatch(h)
        /\ models_tasks' = IF h.result = "FetchModels" /\ ai_client.some
                           THEN Append(models_tasks, ModelArg(key))
                           ELSE models_tasks
        /\ UNCHANGED <<spinner_frame, safe_mode, python_available, mcp_client,
                       ai_client, queue, quick, mcp_vars>>

----------------------------------------------------------------------------
(* Completion events *)

\* the text shown for review in the action buffer
DisplayText(tc) ==
    CASE tc.tool = "run_cmd" -> <<tc.command>>
      [] tc.tool = "run_python" -> <<"python:", "\n", tc.code>>
      [] tc.tool = "read_file" -> <<"read_file: ", tc.path>>
      [] tc.tool = "write_file" -> <<"write_file: ", tc.path, " (bytes)">>
      [] tc.tool = "search" -> <<"search: ", tc.pattern, " in ", ".">>
      [] tc.tool = "mcp" -> <<"mcp: ", tc.server, "/", tc.name, "\n", "{}">>
      [] OTHER -> <<"ToolCall {", tc.tool, "}">>

\* a review that never raises the dangerous flag
SetReview_noflag(a, tc) ==
    [set_action_text(a, DisplayText(tc)) EXCEPT
        !.current_tool = Some(tc),
        !.dangerous_command_detected = FALSE]

\* the review of a tool call: action buffer, pending tool, dangerous flag
SetReview(a, tc) ==
    [set_action_text(a, DisplayText(tc)) EXCEPT
        !.current_tool = Some(tc),
        !.dangerous_command_detected =
            is_destructive(tc) \/ (is_run_cmd(tc) /\ is_dangerous(tc.command))]

\* the tool-call branch without the allow-list block
ToolCallResponse_noblock(a, tc) ==
    IF is_run_cmd(tc) /\ is_interactive(tc.command)
    THEN AppTransition(
             add_message(a, MessageModel(<<"Cannot run interactive command: ",
                                           tc.command, "\n", "suggestion">>)),
             StateEvent("TextResponseReceived")).app
    ELSE IF tc.tool = "run_python" /\ ~python_available
    THEN AppTransition(
             add_message(a, MessageModel(<<"Python is not available on this system.">>)),
             StateEvent("TextResponseReceived")).app
    ELSE AppTransition(SetReview(a, tc), StateEvent("ToolCallReceived")).app

\* the tool-call branch without the interactive check
ToolCallResponse_nointeractive(a, tc) ==
    IF tc.tool = "run_python" /\ ~python_available
    THEN AppTransition(
             add_message(a, MessageModel(<<"Python is not available on this system.">>)),
             StateEvent("TextResponseReceived")).app
    ELSE IF ~is_allowed_tool(tc)
    THEN AppTransition(
             add_message(SetReview(a, tc),
                         MessageSystem(<<"Blocked unknown tool: ", tc.tool>>)),
             StateEvent("TextResponseReceived")).app
    ELSE AppTransition(SetReview(a, tc), StateEvent("ToolCallReceived")).app

\* run_loop, Event::ApiResponse(Ok(text)) parsed to a tool call: the App after it
ToolCallResponse(a, tc) ==
    IF is_run_cmd(tc) /\ is_interactive(tc.command)
    THEN AppTransition(
             add_message(a, MessageModel(<<"Cannot run interactive command: ",
                                           tc.command, "\n", "suggestion">>)),
             StateEvent("TextResponseReceived")).app
    ELSE IF tc.tool = "run_python" /\ ~python_available
    THEN AppTransition(
             add_message(a, MessageModel(<<"Python is not available on this system.">>)),
             StateEvent("TextResponseReceived")).app
    ELSE LET a1 == SetReview(a, tc)
         IN IF ~is_allowed_tool(tc)
            THEN AppTransition(
                     add_message(a1, MessageSystem(<<"Blocked unknown tool: ", tc.tool>>)),
                     StateEvent("TextResponseReceived")).app
            ELSE AppTransition(a1, StateEvent("ToolCallReceived")).app

\* the ApiResponse handler with an error branch that sets no banner
ApiResponse_nobanner(a, response) ==
    IF response.ok
    THEN LET a1 == add_message(a, MessageModel(response.value))
             parsed == Parse(response.value)
         IN IF parsed.kind = "ToolCall"
            THEN ToolCallResponse(a1, parsed.tc)
            ELSE AppTransition(a1, StateEvent("TextResponseReceived")).app
    ELSE AppTransition(a, StateEvent("ApiError")).app

\* the ApiResponse handler that does not push the reply to the log
ApiResponse_nomessage(a, response) ==
    IF response.ok
    THEN LET parsed == Parse(response.value)
         IN IF parsed.kind = "ToolCall"
            THEN ToolCallResponse(a, parsed.tc)
            ELSE AppTransition(a, StateEvent("TextResponseReceived")).app
    ELSE AppTransition(set_error(a, response.error), StateEvent("ApiError")).app

\* run_loop, Event::ApiResponse: the App after it
ApiResponse(a, response) ==
    IF response.ok
    THEN LET a1 == add_message(a, MessageModel(response.value))
             parsed == Parse(response.value)
         IN IF parsed.kind = "ToolCall"
            THEN ToolCallResponse(a1, parsed.tc)
            ELSE AppTransition(a1, StateEvent("TextResponseReceived")).app
    ELSE AppTransition(set_error(a, response.error), StateEvent("ApiError")).app

HandleApiResponse ==
    \E response \in ChatResponses :
        /\ SessionOpen
        /\ queue # <<>>
        /\ Head(queue).type = "ApiResponse"
        /\ queue' = Tail(queue)
        /\ StoreApp(ApiResponse(AppFields, response))
        /\ ev' = Ev("ApiResponse", response)
        /\ ret' = FALSE
        /\ UNCHANGED <<spinner_frame, safe_mode, python_available, mcp_client,
                       ai_client, chat_tasks, exec_tasks, models_tasks, quick, mcp_vars>>

\* after the observation: transition(CommandComplete), then the analysis request
\* is spawned, or without a client transition(AnalysisComplete)
SendForAnalysis(a) ==
    LET a1 == AppTransition(a, StateEvent("CommandComplete")).app IN
    IF ai_client.some
    THEN /\ StoreApp(a1)
         /\ chat_tasks' = SpawnChat(chat_tasks, a1.messages)
    ELSE /\ StoreApp(AppTransition(a1, StateEvent("AnalysisComplete")).app)
         /\ UNCHANGED chat_tasks

\* the observation of an executor result without its exit code
CommandFeedback_nocode(a, result) ==
    LET execution_output ==
            IF result.success THEN <<result.stdout>>
            ELSE <<result.stdout, "\n", result.stderr>>
        tool_desc ==
            IF a.current_tool.some
            THEN LET t == a.current_tool.value IN
                 <<t.tool, ": ", IF t.tool = "run_cmd" THEN t.command ELSE t.path>>
            ELSE <<>>
    IN <<"Tool: ">> \o tool_desc \o <<"\nOutput:\n">> \o execution_output

\* the observation of an executor result
CommandFeedback(a, result) ==
    LET execution_output ==
            IF result.success THEN <<result.stdout>>
            ELSE <<result.stdout, "\n", result.stderr>>
        tool_desc ==
            IF a.current_tool.some
            THEN LET t == a.current_tool.value IN
                 <<t.tool, ": ", IF t.tool = "run_cmd" THEN t.command ELSE t.path>>
            ELSE <<>>
    IN <<"Tool: ">> \o tool_desc \o <<"\nExit code: ", ToString(result.exit_code),
                                      "\nOutput:\n">> \o execution_output

\* run_loop, Event::CommandComplete
HandleCommandComplete ==
    \E result \in ExecutionResults :
        /\ SessionOpen
        /\ queue # <<>>
        /\ Head(queue).type = "CommandComplete"
        /\ queue' = Tail(queue)
        /\ LET a == [AppFields EXCEPT !.running_task = None]
           IN SendForAnalysis(add_message(a, MessageUser(CommandFeedback(a, result))))
        /\ ev' = Ev("CommandComplete", result)
        /\ ret' = FALSE
        /\ UNCHANGED <<spinner_frame, safe_mode, python_available, mcp_client,
                       ai_client, exec_tasks, models_tasks, quick, mcp_vars>>

\* run_loop, Event::McpResult
HandleMcpResult ==
    \E result \in McpResults :
        /\ SessionOpen
        /\ queue # <<>>
        /\ Head(queue).type = "McpResult"
        /\ queue' = Tail(queue)
        /\ LET r == Head(queue).arg
               a == [AppFields EXCEPT !.running_task = None]
           IN IF result.ok
              THEN SendForAnalysis(add_message(a, MessageUser(
                       <<"Tool: mcp/", r.server, "/", r.name, "\nOutput:\n", result.value>>)))
              ELSE /\ StoreApp(AppTransition(
                          add_message(a, MessageSystem(<<"MCP error: ", result.error>>)),
                          StateEvent("AnalysisComplete")).app)
                   /\ UNCHANGED chat_tasks
        /\ ev' = Ev("McpResult", [result |-> result, server |-> Head(queue).arg.server,
                                   name |-> Head(queue).arg.name])
        /\ ret' = FALSE
        /\ UNCHANGED <<spinner_frame, safe_mode, python_available, mcp_client,
                       ai_client, exec_tasks, models_tasks, quick, mcp_vars>>

----------------------------------------------------------------------------
(* Background tasks posting to the channel *)

\* str::contains on model names
IsSubstring(pat, m) ==
    \E i \in 0..(Len(m) - Len(pat)) :
        \A j \in 1..Len(pat) : m[i + j] = pat[j]

\* models.iter().find(|m| m.contains(&model_name))
FindModel(models, name) ==
    IF \E i \in 1..Len(models) : IsSubstring(name, models[i])
    THEN Some(models[CHOOSE i \in 1..Len(models) :
                        /\ IsSubstring(name, models[i])
                        /\ \A j \in 1..(i - 1) : ~IsSubstring(name, models[j])])
    ELSE None

\* the lines of the model list, the current model marked
RECURSIVE ModelLines(_, _)
ModelLines(models, current) ==
    IF models = <<>> THEN <<>>
    ELSE <<IF Head(models) = current THEN "-> " ELSE "  ">> \o Head(models) \o
         (IF Len(models) > 1 THEN <<"\n">> ELSE <<>>) \o
         ModelLines(Tail(models), current)

\* what list_models returns
ModelsResults ==
    { Ok(<<>>), Ok(<<ModelA, ModelB>>), Err("Network") }

\* run_loop, Event::ModelsResponse: the App and the client after it
ModelsResponse(a, client, result, model_arg) ==
    IF ~result.ok
    THEN [app |-> add_message(a, MessageSystem(<<"Failed to fetch models: ", result.error>>)),
          client |-> client]
    ELSE IF model_arg.some
    THEN LET matched == FindModel(result.value, model_arg.value) IN
         IF matched.some
         THEN IF client.some
              THEN [app |-> add_message(a, MessageSystem(<<"Switched to: ">> \o matched.value)),
                    client |-> Some(matched.value)]
              ELSE [app |-> a, client |-> client]
         ELSE [app |-> add_message(a, MessageSystem(
                          <<"Model '">> \o model_arg.value \o <<"' not found">>)),
               client |-> client]
    ELSE LET current == IF client.some THEN client.value ELSE <<"unknown">> IN
         [app |-> add_message(a, MessageSystem(
                     <<"Available models:\n">> \o ModelLines(result.value, current) \o
                     <<"\n\nUse /model <name> to switch">>)),
          client |-> client]

HandleModelsResponse ==
    \E result \in ModelsResults :
        LET r == ModelsResponse(AppFields, ai_client, result, Head(queue).arg) IN
        /\ SessionOpen
        /\ queue # <<>>
        /\ Head(queue).type = "ModelsResponse"
        /\ queue' = Tail(queue)
        /\ StoreApp(r.app)
        /\ ai_client' = r.client
        /\ ev' = Ev("ModelsResponse", [result |-> result, model_arg |-> Head(queue).arg])
        /\ ret' = FALSE
        /\ UNCHANGED <<spinner_frame, safe_mode, python_available, mcp_client,
                       chat_tasks, exec_tasks, models_tasks, quick, mcp_vars>>

\* run_loop, Event::Tick
HandleTick ==
    /\ SessionOpen
    /\ spinner_frame' = tick_spinner(spinner_frame)
    /\ ev' = Ev("Tick", <<>>)
    /\ ret' = FALSE
    /\ UNCHANGED <<state, input_textarea, action_textarea, messages, error_message,
                   dangerous_command_detected, current_tool, running_task,
                   safe_mode, python_available, mcp_client, loop_vars, quick, mcp_vars>>

\* run_loop, Event::Resize and Event::CommandCancelled: nothing is done
HandleNoOp ==
    \E type \in {"Resize", "CommandCancelled"} :
        /\ SessionOpen
        /\ ev' = Ev(type, <<>>)
        /\ ret' = FALSE
        /\ UNCHANGED <<app_vars, loop_vars, quick, mcp_vars>>

\* a list_models task: client.list_models().await, then tx.send(ModelsResponse(models, model_arg))
ModelsTaskPosts ==
    \E i \in 1..Len(models_tasks) :
        /\ SessionOpen
        /\ models_tasks' = SubSeq(models_tasks, 1, i - 1) \o
                           SubSeq(models_tasks, i + 1, Len(models_tasks))
        /\ queue' = Append(queue, Event("ModelsResponse", models_tasks[i]))
        /\ ev' = Ev("ModelsTaskPosts", <<>>)
        /\ UNCHANGED <<app_vars, ai_client, chat_tasks, exec_tasks, ret, quick, mcp_vars>>

\* a chat task: client.chat(&messages).await, then tx.send(ApiResponse(response))
ChatTaskPosts ==
    \E t \in chat_tasks :
        /\ SessionOpen
        /\ chat_tasks' = chat_tasks \ {t}
        /\ queue' = Append(queue, Event("ApiResponse", <<>>))
        /\ ev' = Ev("ChatTaskPosts", <<>>)
        /\ UNCHANGED <<app_vars, ai_client, exec_tasks, models_tasks, ret, quick, mcp_vars>>

\* an executor task: execute_tool_async(&tool).await, then tx.send(CommandComplete(result))
ExecTaskPosts ==
    \E t \in exec_tasks :
        /\ SessionOpen
        /\ t.kind = "executor"
        /\ exec_tasks' = exec_tasks \ {t}
        /\ queue' = Append(queue, Event("CommandComplete", <<>>))
        /\ ev' = Ev("ExecTaskPosts", <<>>)
        /\ UNCHANGED <<app_vars, ai_client, chat_tasks, models_tasks, ret, quick, mcp_vars>>

\* an MCP task: start_server, call_tool, then tx.send(McpResult(result, server, name))
McpTaskPosts ==
    \E t \in exec_tasks :
        /\ SessionOpen
        /\ t.kind = "mcp"
        /\ exec_tasks' = exec_tasks \ {t}
        /\ queue' = Append(queue, Event("McpResult",
                        [server |-> t.tool.server, name |-> t.tool.name]))
        /\ ev' = Ev("McpTaskPosts", <<>>)
        /\ UNCHANGED <<app_vars, ai_client, chat_tasks, models_tasks, ret, quick, mcp_vars>>

----------------------------------------------------------------------------
(* Spec: the TUI session *)

SystemPrompt == MessageSystem(<<"SYSTEM_PROMPT", "SYSTEM CONTEXT">>)

\* main, up to the call of run_loop
Init ==
    /\ InitApp
    /\ messages = <<SystemPrompt>>
    /\ safe_mode \in BOOLEAN
    /\ python_available \in BOOLEAN
    /\ mcp_client \in BOOLEAN
    /\ ai_client \in {None, Some(ModelA)}
    /\ queue = <<>>
    /\ chat_tasks = {}
    /\ models_tasks = <<>>
    /\ exec_tasks = {}
    /\ ev = NoEv
    /\ ret = FALSE
    /\ quick = NoQuick
    /\ McpOff

Next ==
    \/ HandleKey
    \/ HandleApiResponse
    \/ HandleCommandComplete
    \/ HandleMcpResult
    \/ ChatTaskPosts
    \/ ExecTaskPosts
    \/ McpTaskPosts

\* the session while the user enters no /model command, with the events that
\* leave the App alone (Tick, Resize, CommandCancelled) left out
Spec == Init /\ [][Next]_vars

\* the session with every event of the loop
NextLoop ==
    \/ Next
    \/ HandleModelKey
    \/ HandleModelsResponse
    \/ ModelsTaskPosts
    \/ HandleTick
    \/ HandleNoOp

SpecLoop == Init /\ [][NextLoop]_vars

----------------------------------------------------------------------------
(* SpecQuick: main's dispatch on -q / -x and run_quick_mode *)

\* command-line arguments after the program name
MaxArgs == 3
ArgTokens == {"-q", "-x", "--safe", "list files", ""}
ArgLists == UNION { [1..n -> ArgTokens] : n \in 0..MaxArgs }

\* args.iter().position(|a| a == flag): 0 when absent
Position(args, flag) ==
    IF \E i \in 1..Len(args) : args[i] = flag
    THEN CHOOSE i \in 1..Len(args) : args[i] = flag /\ \A j \in 1..(i - 1) : args[j] # flag
    ELSE 0

InitQuick ==
    /\ InitApp
    /\ messages = <<>>
    /\ safe_mode = FALSE
    /\ python_available = FALSE
    /\ mcp_client = FALSE
    /\ ai_client = None
    /\ queue = <<>>
    /\ chat_tasks = {}
    /\ models_tasks = <<>>
    /\ exec_tasks = {}
    /\ ev = NoEv
    /\ ret = FALSE
    /\ McpOff
    /\ \E args \in ArgLists : \E loads \in BOOLEAN :
          quick = [pc |-> "main", args |-> args, mcp_loads |-> loads,
                   safe_mode |-> FALSE, execute |-> FALSE, prompt |-> "",
                   tool |-> None, confirmed |-> None, executed |-> <<>>,
                   result |-> None, exit_code |-> None]

quick_frame == <<app_vars, loop_vars, ev, ret, mcp_vars>>

\* main: --safe, then the -q / -x dispatch
QuickMain ==
    /\ quick.pc = "main"
    /\ LET args == quick.args
           safe == \E i \in 1..Len(args) : args[i] = "--safe"
           query_mode == Position(args, "-q")
           exec_mode == Position(args, "-x")
           pos == IF query_mode # 0 THEN query_mode ELSE exec_mode
           prompt == IF pos + 1 <= Len(args) THEN args[pos + 1] ELSE ""
       IN IF pos = 0
          THEN quick' = [quick EXCEPT !.pc = "tui", !.safe_mode = safe]
          ELSE IF prompt = ""
          THEN quick' = [quick EXCEPT !.pc = "exited", !.safe_mode = safe,
                                      !.exit_code = Some(1)]
          ELSE quick' = [quick EXCEPT !.pc = "chat", !.safe_mode = safe,
                                      !.execute = (exec_mode # 0), !.prompt = prompt]
    /\ UNCHANGED quick_frame

\* run_quick_mode: the chat request and the match on the parsed response
QuickChat ==
    /\ quick.pc = "chat"
    /\ \E response \in ChatResponses :
          IF ~response.ok
          THEN quick' = [quick EXCEPT !.pc = "exited", !.exit_code = Some(1)]
          ELSE LET parsed == Parse(response.value) IN
               IF parsed.kind = "ToolCall"
               THEN IF parsed.tc.tool = "mcp"
                    THEN quick' = [quick EXCEPT !.pc = "mcp", !.tool = Some(parsed.tc)]
                    ELSE IF quick.execute
                    THEN quick' = [quick EXCEPT !.pc = "confirm", !.tool = Some(parsed.tc)]
                    ELSE quick' = [quick EXCEPT !.pc = "exited", !.tool = Some(parsed.tc),
                                                !.exit_code = Some(0)]
               ELSE quick' = [quick EXCEPT !.pc = "exited", !.exit_code = Some(0)]
    /\ UNCHANGED quick_frame

\* run_quick_mode, tool "mcp": McpClient::load, start_all, call_tool
QuickMcp ==
    /\ quick.pc = "mcp"
    /\ IF quick.mcp_loads
       THEN \E result \in McpResults :
               quick' = [quick EXCEPT !.pc = "exited", !.exit_code = Some(0),
                                      !.executed = Append(@, "mcp"),
                                      !.result = Some([success |-> result.ok])]
       ELSE quick' = [quick EXCEPT !.pc = "exited", !.exit_code = Some(0)]
    /\ UNCHANGED quick_frame

\* run_quick_mode, execute: show_confirmation_dialog
QuickConfirm ==
    /\ quick.pc = "confirm"
    /\ \E confirmed \in BOOLEAN :
          IF confirmed
          THEN quick' = [quick EXCEPT !.pc = "execute", !.confirmed = Some(TRUE)]
          ELSE quick' = [quick EXCEPT !.pc = "exited", !.confirmed = Some(FALSE),
                                      !.exit_code = Some(0)]
    /\ UNCHANGED quick_frame

\* run_quick_mode, execute: execute_tool_async, summary, result dialog, exit
QuickExecute ==
    /\ quick.pc = "execute"
    /\ \E result \in ExecutionResults :
          quick' = [quick EXCEPT !.pc = "exited", !.executed = Append(@, "executor"),
                                 !.result = Some(result),
                                 !.exit_code = Some(result.exit_code)]
    /\ UNCHANGED quick_frame

NextQuick ==
    \/ QuickMain
    \/ QuickChat
    \/ QuickMcp
    \/ QuickConfirm
    \/ QuickExecute

SpecQuick == InitQuick /\ [][NextQuick]_vars

----------------------------------------------------------------------------
(* Claims about the App object (SpecApp) *)

\* the transition table of the session state machine, as (from, event, to)
TransitionTable ==
    { <<"Input", SubmitInput(FALSE), "Thinking">>,
      <<"Thinking", StateEvent("ToolCallReceived"), "ReviewAction">>,
      <<"Thinking", StateEvent("TextResponseReceived"), "Input">>,
      <<"Thinking", StateEvent("ApiError"), "Input">>,
      <<"ReviewAction", StateEvent("ExecuteConfirmed"), "Executing">>,
      <<"ReviewAction", StateEvent("ExecuteCancelled"), "Input">>,
      <<"Executing", StateEvent("CommandComplete"), "Finalizing">>,
      <<"Finalizing", StateEvent("ApiError"), "Input">>,
      <<"Finalizing", StateEvent("AnalysisComplete"), "Input">>,
      <<"Finalizing", StateEvent("TextResponseReceived"), "Input">>,
      <<"Finalizing", StateEvent("ToolCallReceived"), "ReviewAction">> }

InTable(from, e) == \E t \in TransitionTable : t[1] = from /\ t[2] = e

C1_Step ==
    /\ state' # state =>
          /\ ev'.type \in {"transition", "submit_input"}
          /\ \E t \in TransitionTable :
                /\ t[1] = state /\ t[3] = state'
                /\ ev'.type = "transition" => t[2] = ev'.arg
                /\ ev'.type = "submit_input" => t[2] = SubmitInput(FALSE)
    /\ ev'.type = "transition" =>
          IF InTable(state, ev'.arg)
          THEN ret' = TRUE /\ <<state, ev'.arg, state'>> \in TransitionTable
          ELSE ret' = FALSE /\ state' = state

\* C1: the session state starts as Input and changes only along the transition
\* table; App::transition returns true exactly for the pairs of the table and
\* for every other (state, event) pair returns false and leaves the state as it was.
C1_TransitionTable == (state = "Input") /\ [][C1_Step]_vars

\* C1 witness: a table transition taken from Finalizing, reached through the table
C1_Witness ==
    /\ ev.type = "transition" /\ ev.from = "Finalizing"
    /\ ev.arg = StateEvent("ToolCallReceived")
    /\ state = "ReviewAction" /\ ret = TRUE

AllWhitespace(s) == \A i \in 1..Len(s) : s[i] \in Whitespace

\* c is r without its leading and trailing whitespace
IsTrimOf(c, r) ==
    \E i \in 0..Len(r) : \E j \in i..Len(r) :
        /\ c = SubSeq(r, i + 1, j)
        /\ AllWhitespace(SubSeq(r, 1, i))
        /\ AllWhitespace(SubSeq(r, j + 1, Len(r)))
        /\ c # <<>> => c[1] \notin Whitespace /\ c[Len(c)] \notin Whitespace

C2_Step ==
    LET raw == JoinLines(input_textarea) IN
    (ev'.type = "submit_input" /\ state = "Input" /\ ~AllWhitespace(raw)) =>
        /\ ret' = TRUE
        /\ state' = "Thinking"
        /\ Len(messages') = Len(messages) + 1
        /\ SubSeq(messages', 1, Len(messages)) = messages
        /\ messages'[Len(messages')].role = "user"
        /\ IsTrimOf(messages'[Len(messages')].content, raw)
        /\ messages'[Len(messages')].content # <<>>
        /\ JoinLines(input_textarea') = <<>>

\* C2: submit_input in state Input with an input whose trimmed form is not empty
\* returns true, moves to Thinking, appends exactly one message, of role user and
\* with the trimmed input as content, and leaves the input buffer empty.
C2_SubmitNonEmpty == [][C2_Step]_vars

\* C2 witness: an input with surrounding whitespace was submitted from Input
C2_Witness ==
    /\ ev.type = "submit_input" /\ ev.from = "Input" /\ ret = TRUE
    /\ ev.arg # <<>> /\ ev.arg[1] \in Whitespace
    /\ state = "Thinking" /\ Len(messages) = 1
    /\ messages[1].content = <<"a">>

C3_Step ==
    (ev'.type = "submit_input" /\ AllWhitespace(JoinLines(input_textarea))) =>
        /\ ret' = FALSE
        /\ state' = state
        /\ messages' = messages

\* C3: submit_input with an input whose trimmed form is empty (the empty string or
\* only spaces, tabs, newlines, carriage returns) returns false and leaves the
\* session state and the message log unchanged.
C3_SubmitEmpty == [][C3_Step]_vars

\* C3 witness: a whitespace-only buffer holding a tab and a newline was submitted
C3_Witness ==
    /\ ev.type = "submit_input" /\ ev.arg = <<"\t", "\n">>
    /\ ret = FALSE /\ state = ev.from /\ messages = <<>>

----------------------------------------------------------------------------
(* Claims about the TUI session (Spec) *)

IsPrefix(s, t) == Len(s) <= Len(t) /\ SubSeq(t, 1, Len(s)) = s

\* the step handled an ApiResponse event
IsApiResponse(e) == e.type = "ApiResponse"
\* the step handled an ApiResponse whose reply is a tool-call JSON object
IsToolReply(e) ==
    /\ IsApiResponse(e) /\ e.arg.ok
    /\ Len(e.arg.value) = 3 /\ e.arg.value[1] = "{\"tool\":"
\* the step handled the key with which the user confirms the pending tool call
IsConfirm(e) == e.type = "Key" /\ e.arg = <<"Enter", "ExecuteCommand">>

C4_Step ==
    /\ (IsApiResponse(ev') /\ ~ev'.arg.ok /\ state \in {"Thinking", "Finalizing"}) =>
          /\ state' = "Input"
          /\ error_message'.some /\ error_message'.value # <<>>
          /\ IsPrefix(messages, messages')
    /\ (ev'.type = "Key" /\ ev'.arg = <<"Enter", "SubmitQuery">> /\ ~ai_client.some) =>
          /\ state' = "Input"
          /\ error_message'.some /\ error_message'.value # <<>>
          /\ IsPrefix(messages, messages')

\* C4: when an LLM request fails while the state is Thinking or Finalizing (an
\* ApiResponse carrying an error, or a submit with no LLM client), the state becomes
\* Input, the error banner is set to a non-empty string and the log keeps every
\* message it had.
C4_ApiErrorRecovery == [][C4_Step]_vars

\* C4 witness: an error answered the analysis request of an executed command
C4_Witness ==
    /\ IsApiResponse(ev) /\ ~ev.arg.ok /\ ev.from = "Finalizing"
    /\ state = "Input" /\ error_message.some /\ Len(messages) = 4

C5_Step ==
    exec_tasks' \ exec_tasks # {} =>
        /\ IsConfirm(ev')
        /\ state = "ReviewAction"
        /\ current_tool.some
        /\ \A t \in exec_tasks' \ exec_tasks : t.tool = current_tool.value

\* C5: an execution task (executor task or MCP call) is started only while the
\* user's confirmation of the pending tool call is handled in ReviewAction;
\* receiving a tool call, a dangerous one included, starts none.
C5_ExecOnlyOnConfirm == [][C5_Step]_vars

\* C5 witness: a tool call flagged dangerous was confirmed and its task runs
C5_Witness ==
    /\ IsConfirm(ev) /\ ev.from = "ReviewAction"
    /\ dangerous_command_detected
    /\ \E t \in exec_tasks : t.tool.command = "rm -rf /"

C6_Step ==
    (IsToolReply(ev') /\ ev'.arg.value[2] \notin
        {"run_cmd", "run_python", "read_file", "write_file", "search", "mcp"}) =>
        /\ exec_tasks' = exec_tasks
        /\ Len(messages') = Len(messages) + 2
        /\ IsPrefix(messages, messages')
        /\ messages'[Len(messages')].role = "system"
        /\ messages'[Len(messages')].content[1] = "Blocked unknown tool: "
        /\ state \in {"Thinking", "Finalizing"}
        /\ state' = "Input"

\* C6: for an LLM reply that parses to a tool call whose tool is not in the
\* allow-list, no execution task is started, a system-role message noting the
\* rejection is appended, and the state goes to Input, not to ReviewAction or
\* Executing.
C6_UnknownToolBlocked == [][C6_Step]_vars

\* C6 witness: a tool call of an unknown tool was handled
C6_Witness ==
    /\ IsToolReply(ev) /\ ev.arg.value[2] = "launch_missiles"
    /\ state = "Input" /\ messages[Len(messages)].role = "system"

C7_Step ==
    (IsToolReply(ev') /\ ev'.arg.value[2] = "run_cmd" /\ ev'.arg.value[3] = "vim foo.txt") =>
        /\ exec_tasks' = exec_tasks
        /\ Len(messages') = Len(messages) + 2
        /\ IsPrefix(messages, messages')
        /\ messages'[Len(messages')].role = "model"
        /\ messages'[Len(messages')].content[1] = "Cannot run interactive command: "
        /\ "suggestion" \in { messages'[Len(messages')].content[i] :
                                i \in 1..Len(messages'[Len(messages')].content) }
        /\ current_tool' = current_tool
        /\ state \in {"Thinking", "Finalizing"}
        /\ state' = "Input"

\* C7: for an LLM reply that parses to a run_cmd tool call whose command the
\* interactive detector matches, no execution task is started, a model-role message
\* carrying the suggestion is appended, the pending tool call is not set, and the
\* state goes to Input.
C7_InteractiveRefused == [][C7_Step]_vars

\* C7 witness: an interactive command was proposed and refused
C7_Witness ==
    /\ IsToolReply(ev) /\ ev.arg.value[3] = "vim foo.txt"
    /\ state = "Input" /\ ~current_tool.some
    /\ messages[Len(messages)].role = "model"

C8_Step ==
    (IsConfirm(ev') /\ safe_mode /\ state = "ReviewAction") =>
        /\ exec_tasks' = exec_tasks
        /\ Len(messages') = Len(messages) + 1
        /\ IsPrefix(messages, messages')
        /\ messages'[Len(messages')].role = "system"
        /\ messages'[Len(messages')].content[1] = "[SAFE MODE] "
        /\ state' = "Input"

\* C8: in safe mode, when the user confirms a pending tool call in ReviewAction,
\* no executor task and no MCP call is started, exactly one system-role "would ..."
\* message is appended, and the state is Input once the confirmation is handled.
C8_SafeModeConfirm == [][C8_Step]_vars

----------------------------------------------------------------------------
(* Claims about the single-shot mode (SpecQuick) *)

\* C9: with --safe given no tool call is executed on any path, the single-shot
\* -q and -x modes included: no executor run and no MCP call_tool happens.
C9_SafeNeverExecutes == quick.safe_mode => quick.executed = <<>>

\* C10: in single-shot mode a tool call is executed only if -x was given and the
\* confirmation dialog returned confirmed; this holds for every tool kind, mcp
\* included.
C10_ExecNeedsConfirm ==
    quick.executed # <<>> => (quick.execute /\ quick.confirmed = Some(TRUE))

----------------------------------------------------------------------------
(* Claims C11 - C17, on Spec *)

\* the events of one of the given types waiting in the channel
Queued(types) == { i \in 1..Len(queue) : queue[i].type \in types }

\* chat requests issued whose ApiResponse has not been handled
InFlightChats == Cardinality(chat_tasks) + Cardinality(Queued({"ApiResponse"}))

\* executions started whose completion event has not been handled
InFlightExecs ==
    Cardinality(exec_tasks) + Cardinality(Queued({"CommandComplete", "McpResult"}))

\* C11: in every reachable state of the session at most one chat request is in
\* flight and at most one execution (executor task or MCP call) is in flight.
C11_SingleFlight == InFlightChats <= 1 /\ InFlightExecs <= 1

\* a key was handled in Executing while the MCP call went on
C11_Witness ==
    /\ ev.type = "Key"
    /\ ev.from = "Executing"
    /\ InFlightExecs = 1

IsCancel(e) == e.type = "Key" /\ e.from = "Executing" /\ e.arg[2] = "CancelCommand"

CancelledMessage == MessageSystem(<<"Command cancelled">>)

\* C12: when the user cancels while the state is Executing, the "Command
\* cancelled" message is appended to the log and the state is Input once the
\* key event has been handled.
C12_Step ==
    IsCancel(ev') =>
        /\ messages' = Append(messages, CancelledMessage)
        /\ state' = "Input"

C12_CancelToInput == [][C12_Step]_vars

\* an observation of an execution: the user-role message of a completion event
IsObservation(m) ==
    /\ m.role = "user"
    /\ m.content # <<>>
    /\ Head(m.content) \in {"Tool: ", "Tool: mcp/"}

\* the user cancelled an execution and has submitted no input since
CancelPending ==
    \E i \in 1..Len(messages) :
        /\ messages[i] = CancelledMessage
        /\ \A j \in (i + 1)..Len(messages) :
               messages[j].role = "user" => IsObservation(messages[j])

\* C13: after the user cancels an execution, no chat request is issued and no
\* observation of the execution is appended until the user submits new input,
\* whether the completion event was queued before the cancel or arrives after.
C13_Step ==
    (CancelPending /\ ~(ev'.type = "Key" /\ ev'.arg[2] = "SubmitQuery")) =>
        /\ chat_tasks' \subseteq chat_tasks
        /\ \A i \in (Len(messages) + 1)..Len(messages') : ~IsObservation(messages'[i])

C13_NoFollowUpAfterCancel == [][C13_Step]_vars

----------------------------------------------------------------------------
(* SpecStale: the ApiResponse handler taking a completion that arrives after  *)
(* the context was reset (spec section 5: the completion of a request the    *)
(* user cancelled is allowed to arrive): the session is in Input,            *)
(* ReviewAction or Executing when the loop takes the event.                  *)

\* the fields of App::new with the log of a session after one submission
AppNew ==
    [state |-> "Input", input_textarea |-> TextAreaDefault,
     action_textarea |-> TextAreaDefault,
     messages |-> <<SystemPrompt, MessageUser(<<"a">>)>>,
     error_message |-> None, dangerous_command_detected |-> FALSE,
     current_tool |-> None, running_task |-> None]

\* tool calls that reach review
ReviewedTools ==
    { ToolCall(t[1], t[2]) : t \in { u \in ToolArgs :
          u[1] \in AllowedTools /\ ~is_interactive(u[2]) } }

\* the Apps a late ApiResponse finds
StaleApps ==
    {AppNew} \cup
    { [SetReview(AppNew, tc) EXCEPT !.state = s] :
          tc \in ReviewedTools, s \in {"Input", "ReviewAction", "Executing"} }

InitStale ==
    /\ \E a \in StaleApps :
          /\ state = a.state
          /\ input_textarea = a.input_textarea
          /\ action_textarea = a.action_textarea
          /\ messages = a.messages
          /\ error_message = a.error_message
          /\ dangerous_command_detected = a.dangerous_command_detected
          /\ current_tool = a.current_tool
          /\ running_task = a.running_task
    /\ spinner_frame = 0
    /\ safe_mode = FALSE
    /\ python_available \in BOOLEAN
    /\ mcp_client = TRUE
    /\ ai_client = Some(ModelA)
    /\ queue = <<Event("ApiResponse", <<>>)>>
    /\ chat_tasks = {}
    /\ models_tasks = <<>>
    /\ exec_tasks = {}
    /\ ev = NoEv
    /\ ret = FALSE
    /\ quick = NoQuick
    /\ McpOff

NextStale == HandleApiResponse

SpecStale == InitStale /\ [][NextStale]_vars

\* C14: a stale ApiResponse (handled when the state is neither Thinking nor
\* Finalizing) is ignored: the state, the message log, the pending tool call,
\* the action buffer and the dangerous flag are unchanged.
C14_Step ==
    (IsApiResponse(ev') /\ state \notin {"Thinking", "Finalizing"}) =>
        UNCHANGED <<state, messages, current_tool, action_textarea,
                    dangerous_command_detected>>

----------------------------------------------------------------------------
(* Claims C15 - C17, on Spec *)

Contains(s, x) == \E i \in 1..Len(s) : s[i] = x

\* the step spawned exactly one chat task, holding the log after the step
OneChatIssued ==
    \E t \in chat_tasks' :
        /\ t \notin chat_tasks
        /\ chat_tasks' = chat_tasks \cup {t}
        /\ t.messages = messages'

\* C15: when CommandComplete is handled in Executing, for any exit code, exactly
\* one user-role observation with the tool description, the exit code and the
\* captured output is appended, the state becomes Finalizing and exactly one chat
\* request is issued with the log holding the observation; with no LLM client the
\* state goes on to Input.
C15_Step ==
    (ev'.type = "CommandComplete" /\ state = "Executing") =>
        LET result == ev'.arg
            obs == messages'[Len(messages')]
        IN /\ Len(messages') = Len(messages) + 1
           /\ IsPrefix(messages, messages')
           /\ obs.role = "user"
           /\ current_tool.some
           /\ Contains(obs.content, current_tool.value.tool)
           /\ is_run_cmd(current_tool.value) =>
                  Contains(obs.content, current_tool.value.command)
           /\ Contains(obs.content, ToString(result.exit_code))
           /\ Contains(obs.content, result.stdout)
           /\ ~result.success => Contains(obs.content, result.stderr)
           /\ IF ai_client.some
              THEN state' = "Finalizing" /\ OneChatIssued
              ELSE state' = "Input" /\ chat_tasks' = chat_tasks

C15_CommandComplete == [][C15_Step]_vars

\* a failed command was observed and sent for analysis
C15_Witness ==
    /\ ev.type = "CommandComplete"
    /\ ev.from = "Executing"
    /\ ev.arg.exit_code = 2
    /\ state = "Finalizing"
    /\ chat_tasks # {}

\* C16: when McpResult is handled in Executing, whether the MCP call succeeded
\* or failed, a user-role observation built from the result is appended, the
\* state becomes Finalizing and a fresh chat request is issued.
C16_Step ==
    (ev'.type = "McpResult" /\ state = "Executing") =>
        LET obs == messages'[Len(messages')]
        IN /\ Len(messages') = Len(messages) + 1
           /\ IsPrefix(messages, messages')
           /\ obs.role = "user"
           /\ state' = "Finalizing"
           /\ OneChatIssued

C16_McpResult == [][C16_Step]_vars

\* the step handled an ApiResponse whose reply is not a tool call
IsTextReply(e) ==
    /\ IsApiResponse(e) /\ e.arg.ok
    /\ Parse(e.arg.value).kind = "TextResponse"

\* C17: when an ApiResponse whose reply is not a tool call is handled in Thinking
\* or Finalizing, the log grows by exactly one model-role message holding the
\* reply verbatim, the state becomes Input and no execution is started.
C17_Step ==
    (IsTextReply(ev') /\ state \in {"Thinking", "Finalizing"}) =>
        /\ messages' = Append(messages, MessageModel(ev'.arg.value))
        /\ state' = "Input"
        /\ exec_tasks' = exec_tasks
        /\ running_task' = running_task

C17_TextReply == [][C17_Step]_vars

\* a plain-text analysis ended the cycle of an executed command
C17_Witness ==
    /\ IsTextReply(ev)
    /\ ev.from = "Finalizing"
    /\ state = "Input"
    /\ messages[Len(messages)] = MessageModel(<<"hello">>)

----------------------------------------------------------------------------
(* SpecMcp: the MCP subclient (src/src/mcp.rs).  Threads call the public      *)
(* methods of one McpClient; a method is followed step by step wherever it   *)
(* may block: on the Mutex around the process table and on the response of a *)
(* server.                                                                   *)

\* operations the threads start in a session
MaxOps == 2
\* child processes spawned in a session
MaxChildren == 3

\* the servers of the configuration with stdio transport
StdioServers == {"fs", "git"}
\* the servers of the configuration with HTTP transport (and a url)
HttpServers == {"web"}
\* config.servers
Servers == StdioServers \cup HttpServers
\* a server name that is not in the configuration
UnknownServers == {"nope"}
\* the names a caller may pass
Names == Servers \cup UnknownServers
\* a configuration that has every name
Configured_any(n) == TRUE
\* config.servers.get(name) is Some
Configured(n) == n \in Servers
\* a configuration whose servers all have stdio transport
Transport_stdio(s) == "stdio"
\* server_config.transport
Transport(s) == IF s \in HttpServers THEN "http" ELSE "stdio"
\* the threads sharing the client
Threads == {1, 2}

\* McpProcess { child, request_id: 0 }; stdout tells whether child.stdout is Some
McpProcess(child) == [child |-> child, request_id |-> 0, stdout |-> TRUE]

\* Ok(()) and Ok(None)
UnitValue == [child |-> 0, id |-> 0]

\* the bool is_running returns
BoolValue(b) == [running |-> b]

\* a thread that is not inside a method of the client; outer, todo, results,
\* stdio_names and all_tools are used by start_all and list_all_tools
ThreadIdle ==
    [op |-> "idle", server |-> "", pc |-> "idle", wait |-> FALSE, child |-> 0,
     req |-> UnitValue, first |-> None, second |-> None, ret |-> None, ops |-> 0,
     outer |-> "", todo |-> <<>>, results |-> <<>>, stdio_names |-> <<>>,
     all_tools |-> {}]

\* the positions at which a thread is inside McpClient::call
CallPcs == {"first", "init", "notif", "retry"}

\* the method of the request a thread sends at its position
Method(th) ==
    CASE th.pc = "init" -> "initialize"
      [] th.pc = "notif" -> "notifications/initialized"
      [] th.op = "list_tools" -> "tools/list"
      [] OTHER -> "tools/call"

\* the operations started so far
OpsStarted == threads[1].ops + threads[2].ops

\* a lock that is never held
MutexFree_unlocked == TRUE

\* Mutex::lock can be taken
MutexFree == mutex = 0

\* a list_all_tools that inserts an entry whatever list_tools returned
Collect_all(th, result) ==
    [th EXCEPT !.pc = "next", !.wait = FALSE,
               !.results = Append(@, <<th.server, result>>),
               !.all_tools = IF th.outer = "list_all_tools" THEN @ \cup {th.server} ELSE @]

\* start_all and list_all_tools take the result of the method they called on
\* one server: start_all collects (name, result); list_all_tools inserts the
\* name into all_tools if let Ok(tools) = list_tools(name)
Collect(th, result) ==
    [th EXCEPT !.pc = "next", !.wait = FALSE,
               !.results = Append(@, <<th.server, result>>),
               !.all_tools = IF th.outer = "list_all_tools" /\ result.ok
                             THEN @ \cup {th.server} ELSE @]

\* the method returns: the thread is idle again and holds the returned value,
\* or start_all or list_all_tools goes on with the result
Return(th, result) ==
    IF th.outer = ""
    THEN [th EXCEPT !.pc = "idle", !.wait = FALSE, !.ret = Some(result)]
    ELSE Collect(th, result)

\* call_with_retry returning the first error when the retry fails
RetryReturn_first(first, second) == IF second.ok THEN second ELSE first

\* call_with_retry: the value returned once the retry has been made
RetryReturn(first, second) == second

\* start_server returning its own error to call_with_retry's caller
StartFailed_restart(th, result) == Return(th, result)

\* start_server returned an error: to its caller, or to restart_server inside
\* call_with_retry, which then returns the error of the first attempt
StartFailed(th, result) ==
    IF th.op = "start_server" THEN Return(th, result)
    ELSE Return(th, th.first.value)

\* what the caller of McpClient::call does with its result
AfterCall(th, result) ==
    CASE th.pc = "first" ->
            IF result.ok
            THEN Return([th EXCEPT !.first = Some(result)], result)
            ELSE [th EXCEPT !.first = Some(result), !.pc = "stop"]
      [] th.pc = "init" ->
            IF result.ok THEN [th EXCEPT !.pc = "notif"] ELSE StartFailed(th, result)
      [] th.pc = "notif" ->
            IF ~result.ok THEN StartFailed(th, result)
            ELSE IF th.op = "start_server" THEN Return(th, Ok(UnitValue))
            ELSE [th EXCEPT !.pc = "retry"]
      [] OTHER ->
            Return([th EXCEPT !.second = Some(result)],
                   RetryReturn(th.first.value, result))

mcp_frame == <<app_vars, loop_vars, ev, ret, quick, config>>

\* McpClient::new, with the threads outside the client
InitMcp ==
    /\ InitApp
    /\ messages = <<>>
    /\ safe_mode = FALSE
    /\ python_available = FALSE
    /\ mcp_client = TRUE
    /\ ai_client = None
    /\ queue = <<>>
    /\ chat_tasks = {}
    /\ models_tasks = <<>>
    /\ exec_tasks = {}
    /\ ev = NoEv
    /\ ret = FALSE
    /\ quick = NoQuick
    /\ processes = [s \in Names |-> None]
    /\ mutex = 0
    /\ children = <<>>
    /\ wire = [s \in Names |-> <<>>]
    /\ threads = [t \in Threads |-> ThreadIdle]
    /\ config = NoConfig

\* the client has been dropped: no method can be called on it any more
Dropped == \E t \in Threads : threads[t].op = "drop"

\* the public methods the threads call; drop is McpClient's Drop
McpOps ==
    {"start_server", "stop_server", "call_tool", "list_tools", "is_running",
     "stop_all", "drop"}

\* the thread enters the method th.op with the name th.server
Enter(th) ==
    LET http == Transport(th.server) = "http" IN
    CASE th.op = "stop_server" -> [th EXCEPT !.pc = "stop"]
      [] th.op = "is_running" -> [th EXCEPT !.pc = "running"]
      [] th.op \in {"stop_all", "drop"} -> [th EXCEPT !.pc = "stop_all"]
      [] ~Configured(th.server) -> Return(th, Err("ServerNotFound"))
      [] th.op = "start_server" ->
            IF http THEN Return(th, Ok(UnitValue)) ELSE [th EXCEPT !.pc = "spawn"]
      [] OTHER -> [th EXCEPT !.pc = IF http THEN "http" ELSE "first"]

\* a thread calls a method of the client, or the last owner drops it (no thread
\* is inside a method then); stop_all and drop take no server name; start_server
\* returns Ok at once for HTTP transport, and tools/call and tools/list go to
\* call_http; start_server, tools/call and tools/list return ServerNotFound at
\* once for a name that is not configured; stop_server and is_running go to the
\* table with any name; threads and stdio servers are interchangeable, so the
\* first call of a session is taken to be thread 1's and not on server "git"
McpBegin(t) ==
    \E op \in McpOps :
    \E s \in Names :
        /\ threads[t].pc = "idle"
        /\ ~Dropped
        /\ OpsStarted < MaxOps
        /\ OpsStarted = 0 => (t = 1 /\ s # "git")
        /\ op = "drop" => \A u \in Threads : threads[u].pc = "idle"
        /\ threads' = [threads EXCEPT ![t] =
              Enter([ThreadIdle EXCEPT
                        !.op = op,
                        !.server = IF op \in {"stop_all", "drop"} THEN "" ELSE s,
                        !.ops = threads[t].ops + 1])]
        /\ UNCHANGED <<processes, mutex, children, wire, mcp_frame>>

\* a kill that reaches every child
Kill_every(cs, entry) == [c \in 1..Len(cs) |-> [cs[c] EXCEPT !.killed = TRUE]]

\* Child::kill on the child of a table entry
Kill(cs, entry) ==
    IF entry.some THEN [cs EXCEPT ![entry.value.child].killed = TRUE] ELSE cs

\* stop_server: lock, remove the entry, kill its child
McpStopServer(t) ==
    LET th == threads[t] IN
    /\ th.pc = "stop"
    /\ MutexFree
    /\ processes' = [processes EXCEPT ![th.server] = None]
    /\ children' = Kill(children, processes[th.server])
    /\ threads' = [threads EXCEPT ![t] =
          IF th.op = "stop_server" THEN Return(th, Ok(UnitValue))
          ELSE [th EXCEPT !.pc = "spawn"]]
    /\ UNCHANGED <<mutex, wire, mcp_frame>>

\* Child::kill on the children of all table entries
KillAll(cs) ==
    [c \in 1..Len(cs) |->
        IF \E s \in Names : processes[s].some /\ processes[s].value.child = c
        THEN [cs[c] EXCEPT !.killed = TRUE]
        ELSE cs[c]]

\* stop_all, also run by Drop: lock, drain the table, kill every child in it
McpStopAll(t) ==
    LET th == threads[t] IN
    /\ th.pc = "stop_all"
    /\ MutexFree
    /\ processes' = [s \in Names |-> None]
    /\ children' = KillAll(children)
    /\ threads' = [threads EXCEPT ![t] = Return(th, Ok(UnitValue))]
    /\ UNCHANGED <<mutex, wire, mcp_frame>>

\* is_running: lock, processes.contains_key(name)
McpIsRunning(t) ==
    LET th == threads[t] IN
    /\ th.pc = "running"
    /\ MutexFree
    /\ threads' = [threads EXCEPT ![t] =
          Return(th, Ok(BoolValue(processes[th.server].some)))]
    /\ UNCHANGED <<processes, mutex, children, wire, mcp_frame>>

\* start_server: cmd.spawn()?
McpSpawn(t) ==
    LET th == threads[t] IN
    \E spawned \in BOOLEAN :
        /\ th.pc = "spawn"
        /\ spawned => Len(children) < MaxChildren
        /\ children' = IF spawned
                       THEN Append(children, [server |-> th.server, killed |-> FALSE])
                       ELSE children
        /\ threads' = [threads EXCEPT ![t] =
              IF spawned
              THEN [th EXCEPT !.pc = "insert", !.child = Len(children) + 1]
              ELSE StartFailed(th, Err("Io"))]
        /\ UNCHANGED <<processes, mutex, wire, mcp_frame>>

\* start_server: lock, processes.insert(name, McpProcess { child, request_id: 0 })
McpInsert(t) ==
    LET th == threads[t] IN
    /\ th.pc = "insert"
    /\ MutexFree
    /\ processes' = [processes EXCEPT ![th.server] = Some(McpProcess(th.child))]
    /\ threads' = [threads EXCEPT ![t] = [th EXCEPT !.pc = "init"]]
    /\ UNCHANGED <<mutex, children, wire, mcp_frame>>

\* McpClient::call up to the wait for the response: lock, look the process up,
\* take the next request id, write the request line to the child's stdin, take
\* the child's stdout; the lock is kept while the response is awaited
McpCallWrite(t) ==
    LET th == threads[t]
        p == processes[th.server]
    IN
    /\ th.pc \in CallPcs
    /\ ~th.wait
    /\ MutexFree
    /\ IF ~p.some
       THEN /\ threads' = [threads EXCEPT ![t] = AfterCall(th, Err("ServerNotFound"))]
            /\ UNCHANGED <<processes, mutex, wire>>
       ELSE \E written \in BOOLEAN :
            LET id == p.value.request_id + 1
                request == [child |-> p.value.child, id |-> id, method |-> Method(th)]
                notification == th.pc = "notif"
                awaits == written /\ ~notification /\ p.value.stdout
            IN
            /\ processes' = [processes EXCEPT ![th.server] =
                  Some([p.value EXCEPT !.request_id = id,
                                       !.stdout = IF awaits THEN FALSE ELSE @])]
            /\ wire' = IF written
                       THEN [wire EXCEPT ![th.server] = Append(@, request)]
                       ELSE wire
            /\ mutex' = IF awaits THEN t ELSE mutex
            /\ threads' = [threads EXCEPT ![t] =
                  IF ~written THEN AfterCall(th, Err("Io"))
                  ELSE IF notification THEN AfterCall(th, Ok(UnitValue))
                  ELSE IF ~p.value.stdout THEN AfterCall(th, Err("stdout not available"))
                  ELSE [th EXCEPT !.wait = TRUE,
                                  !.req = [child |-> p.value.child, id |-> id]]]
    /\ UNCHANGED <<children, mcp_frame>>

\* what the wait for the response line ends with
ReadOutcomes == {"response", "error", "io", "timeout"}

\* McpClient::call from the wait on, ending with the given outcome: the reader
\* thread finishes or the deadline passes; stdout is put back only when a line
\* was read; the lock is released
CallEnds(t, outcome) ==
    LET th == threads[t]
        p == processes[th.server].value
        result ==
            CASE outcome = "response" -> Ok([child |-> p.child, id |-> p.request_id])
              [] outcome = "error" -> Err("ServerError")
              [] outcome = "io" -> Err("Io")
              [] OTHER -> Err("Timeout")
    IN
    /\ th.wait
    /\ mutex = t
    /\ mutex' = 0
    /\ processes' = [processes EXCEPT ![th.server] =
          Some([p EXCEPT !.stdout = outcome \in {"response", "error"}])]
    /\ threads' = [threads EXCEPT ![t] = AfterCall([th EXCEPT !.wait = FALSE, !.req = UnitValue], result)]
    /\ UNCHANGED <<children, wire, mcp_frame>>

\* a wait loop without its deadline
McpDeadline_never(t) == FALSE

\* the wait loop finds start.elapsed() > timeout
McpDeadline(t) == CallEnds(t, "timeout")

\* the wait for the response ends: a line or the end of the stream was read, or
\* the deadline passed
McpCallRead(t) ==
    \/ \E outcome \in ReadOutcomes \ {"timeout"} : CallEnds(t, outcome)
    \/ McpDeadline(t)

\* what a POST ends with
HttpOutcomes == {"result", "error", "http error"}

\* call_http: one POST of the request, with id 1, and its result
McpCallHttp(t) ==
    LET th == threads[t] IN
    \E outcome \in HttpOutcomes :
        LET result == IF outcome = "result" THEN Ok([child |-> 0, id |-> 1])
                      ELSE Err("ServerError")
        IN
        /\ th.pc = "http"
        /\ wire' = [wire EXCEPT ![th.server] =
              Append(@, [child |-> 0, id |-> 1, method |-> Method(th)])]
        /\ threads' = [threads EXCEPT ![t] =
              Return([th EXCEPT !.first = Some(result)], result)]
        /\ UNCHANGED <<processes, mutex, children, mcp_frame>>

NextMcp ==
    \E t \in Threads :
        \/ McpBegin(t)
        \/ McpStopServer(t)
        \/ McpStopAll(t)
        \/ McpIsRunning(t)
        \/ McpSpawn(t)
        \/ McpInsert(t)
        \/ McpCallWrite(t)
        \/ McpCallRead(t)
        \/ McpCallHttp(t)

SpecMcp == InitMcp /\ [][NextMcp]_vars

----------------------------------------------------------------------------
(* SpecMcpAll: start_all and list_all_tools, called by one thread one after   *)
(* the other; each calls start_server or list_tools on one name after        *)
(* another, through the steps of SpecMcp.                                    *)

\* calls of start_all and list_all_tools in a session
MaxAllOps == 2

\* the orders in which a HashMap may yield the names
Orders(S) ==
    { q \in [1..Cardinality(S) -> S] : \A n \in S : \E i \in DOMAIN q : q[i] = n }

\* the caller of start_all and list_all_tools
Caller == 1

\* start_all: config.servers.keys(), in the map's order; list_all_tools: entered
McpBeginAll(t) ==
    \E op \in {"start_all", "list_all_tools"} :
    \E order \in Orders(Servers) :
        /\ t = Caller
        /\ threads[t].pc = "idle"
        /\ threads[t].ops < MaxAllOps
        /\ threads' = [threads EXCEPT ![t] =
              [ThreadIdle EXCEPT
                  !.outer = op, !.op = op,
                  !.pc = IF op = "start_all" THEN "next" ELSE "keys",
                  !.todo = IF op = "start_all" THEN order ELSE <<>>,
                  !.ops = threads[t].ops + 1]]
        /\ UNCHANGED <<processes, mutex, children, wire, mcp_frame>>

\* list_all_tools: lock, processes.keys() in the map's order, unlock; the HTTP
\* servers of the configuration follow
McpListKeys(t) ==
    LET th == threads[t]
        running == { n \in Names : processes[n].some }
    IN
    \E stdio_names \in Orders(running) :
    \E http_names \in Orders({ n \in Servers : Transport(n) = "http" }) :
        /\ th.pc = "keys"
        /\ MutexFree
        /\ threads' = [threads EXCEPT ![t] =
              [th EXCEPT !.pc = "next", !.stdio_names = stdio_names,
                         !.todo = stdio_names \o http_names]]
        /\ UNCHANGED <<processes, mutex, children, wire, mcp_frame>>

\* start_all and list_all_tools: the next name, or the return when none is left
McpNextOfAll(t) ==
    LET th == threads[t] IN
    /\ th.pc = "next"
    /\ threads' = [threads EXCEPT ![t] =
          IF th.todo = <<>>
          THEN [th EXCEPT
                  !.pc = "idle",
                  !.ret = Some(IF th.outer = "start_all"
                               THEN Ok([statuses |-> th.results])
                               ELSE Ok([all_tools |-> th.all_tools]))]
          ELSE Enter([th EXCEPT
                  !.op = IF th.outer = "start_all" THEN "start_server" ELSE "list_tools",
                  !.server = Head(th.todo),
                  !.todo = Tail(th.todo),
                  !.child = 0, !.first = None, !.second = None])]
    /\ UNCHANGED <<processes, mutex, children, wire, mcp_frame>>

NextMcpAll ==
    \E t \in Threads :
        \/ McpBeginAll(t)
        \/ McpListKeys(t)
        \/ McpNextOfAll(t)
        \/ McpStopServer(t)
        \/ McpSpawn(t)
        \/ McpInsert(t)
        \/ McpCallWrite(t)
        \/ McpCallRead(t)
        \/ McpCallHttp(t)

SpecMcpAll == InitMcp /\ [][NextMcpAll]_vars

\* the servers answer or stay silent as they please; the clock of the wait loop
\* advances, so a deadline that is due is noticed
SpecMcpFair == SpecMcp /\ \A t \in Threads : WF_vars(McpDeadline(t))

----------------------------------------------------------------------------
(* Claims C18 - C20, on SpecMcp *)

\* the thread has returned from a tools/call or tools/list that made its retry
Retried(th) ==
    /\ th.pc = "idle"
    /\ th.op \in {"call_tool", "list_tools"}
    /\ th.second.some

\* C18: a tools/list or tools/call on a stdio server whose first attempt fails
\* returns what the retry returns: the retry's result when it succeeds, the
\* retry's error when it fails too.
C18_RetryResult ==
    \A t \in Threads :
        Retried(threads[t]) =>
            /\ threads[t].first.some
            /\ ~threads[t].first.value.ok
            /\ threads[t].ret = threads[t].second

\* one call failed and then succeeded, another failed twice with two different
\* errors; each returned the outcome of its retry
C18_Witness ==
    \E t1, t2 \in Threads :
        /\ Retried(threads[t1])
        /\ threads[t1].second.value.ok
        /\ threads[t1].ret = threads[t1].second
        /\ Retried(threads[t2])
        /\ ~threads[t2].second.value.ok
        /\ threads[t2].second.value.error # threads[t2].first.value.error
        /\ threads[t2].ret = threads[t2].second

\* C19: for every stdio server name the request ids written to that server over
\* a session are strictly increasing, across starts, stops, restarts and calls.
C19_MonotonicIds ==
    \A s \in StdioServers :
        \A i, j \in 1..Len(wire[s]) :
            i < j => wire[s][i].id < wire[s][j].id

\* C20: exchanges with one stdio server never interleave: while a thread awaits
\* the response to the request it wrote, that request is the last one written to
\* the server and no other thread awaits a response of that server.
C20_NoInterleave ==
    \A t \in Threads :
        threads[t].wait =>
            LET th == threads[t]
                w == wire[th.server]
            IN /\ w # <<>>
               /\ w[Len(w)] = [child |-> th.req.child, id |-> th.req.id,
                               method |-> Method(th)]
               /\ \A u \in Threads \ {t} :
                      ~(threads[u].wait /\ threads[u].server = th.server)

\* a thread awaits a response while another thread is about to send a request
\* to the same server
C20_Witness ==
    \E t, u \in Threads :
        /\ t # u
        /\ threads[t].wait
        /\ threads[u].pc \in CallPcs
        /\ ~threads[u].wait
        /\ threads[u].server = threads[t].server
        /\ processes[threads[t].server].some

----------------------------------------------------------------------------
(* Claims C21 - C24, on SpecMcp *)

\* thread t awaits the response to a request it wrote to server s
Awaiting(t, s) == threads[t].wait /\ threads[t].server = s

\* thread u is about to send a request to the running server s
AboutToCall(u, s) ==
    /\ threads[u].pc \in CallPcs
    /\ ~threads[u].wait
    /\ threads[u].server = s
    /\ processes[s].some

\* at most one thread of the client awaits a response, whatever the servers
C21_Serialized ==
    \A t, u \in Threads :
        (threads[t].wait /\ threads[u].wait) => t = u

\* C21: calls to two different stdio servers may execute in parallel: while a
\* thread awaits the response of server A, a thread about to call the running
\* server B can write its request and await B's response.
C21_ParallelServers ==
    \A t, u \in Threads : \A a, b \in StdioServers :
        (a # b /\ Awaiting(t, a) /\ AboutToCall(u, b)) => ENABLED McpCallWrite(u)

\* the child is in a local variable of start_server, between spawn and insert
HeldByStart(c) ==
    \E t \in Threads : threads[t].pc = "insert" /\ threads[t].child = c

\* the child is the one of the table entry of its server
ChildInTable(c) ==
    /\ processes[children[c].server].some
    /\ processes[children[c].server].value.child = c

\* C22: every spawned child that has not been sent a kill is the child held in
\* the process-table entry of its server (or is just being inserted there), so
\* that after stop_all or drop no spawned child is left un-killed.
C22_ChildrenKilled ==
    \A c \in 1..Len(children) :
        ~children[c].killed => (ChildInTable(c) \/ HeldByStart(c))

\* C23: every call to a running stdio server terminates: a notification never
\* waits for a response, and a thread that awaits a response eventually stops
\* awaiting it (with the response, an error, or Timeout), however silent the
\* server is.
C23_CallsTerminate ==
    \A t \in Threads :
        /\ [](threads[t].wait => threads[t].pc # "notif")
        /\ threads[t].wait ~> ~threads[t].wait

\* a call gave up on a silent server: it returned Timeout, and the notification
\* of a handshake was sent without a wait
C23_Witness ==
    \E t \in Threads : \E s \in StdioServers :
        /\ threads[t].pc = "idle"
        /\ threads[t].op = "call_tool"
        /\ threads[t].first = Some(Err("Timeout"))
        /\ \E i \in 1..Len(wire[s]) : wire[s][i].method = "notifications/initialized"

\* thread t returns from a tools/call or tools/list on the HTTP server h
HttpCallReturns(t, h) ==
    /\ threads[t].pc = "http"
    /\ threads[t].server = h
    /\ threads'[t].pc = "idle"

\* C24: for a server with HTTP transport every call performs exactly one POST
\* with request id 1 and returns its result (the first error, with no restart
\* and no second attempt); no initialize is ever sent to it; start_server
\* returns Ok without spawning a process or adding a process-table entry.
C24_Step ==
    \A h \in HttpServers :
        /\ ~processes'[h].some
        /\ \A c \in 1..Len(children') : children'[c].server # h
        /\ \A t \in Threads :
              (threads'[t].op = "start_server" /\ threads'[t].server = h) =>
                  threads'[t].pc = "idle" /\ threads'[t].ret = Some(Ok(UnitValue))
        /\ IF \E t \in Threads : HttpCallReturns(t, h)
           THEN \E t \in Threads :
                   /\ HttpCallReturns(t, h)
                   /\ wire'[h] = Append(wire[h], [child |-> 0, id |-> 1,
                                                  method |-> Method(threads[t])])
                   /\ Method(threads[t]) \in {"tools/call", "tools/list"}
                   /\ threads'[t].ret = threads'[t].first
                   /\ ~threads'[t].second.some
           ELSE wire'[h] = wire[h]

----------------------------------------------------------------------------
(* Claims C25 - C27, on SpecLoop and Spec *)

\* C25: the message log is append-only within a session: for every event the
\* loop handles (key, tick, resize, ApiResponse, CommandComplete, McpResult,
\* ModelsResponse, CommandCancelled) the log before the event is a prefix of the
\* log after it.
C25_Step == IsPrefix(messages, messages')

C25_AppendOnly == [][C25_Step]_vars

\* a tick was handled after a model switch that followed a complete cycle: the
\* log holds the prompt, the query, the reply and the switch message
C25_Witness ==
    /\ ev.type = "Tick"
    /\ Len(messages) = 4
    /\ messages[1] = SystemPrompt
    /\ messages[2].role = "user"
    /\ messages[3].role = "model"
    /\ messages[4] = MessageSystem(<<"Switched to: ">> \o ModelB)
    /\ ai_client = Some(ModelB)

\* the user decides a review: confirms (Enter) or cancels (Esc)
ReviewDecision ==
    /\ state = "ReviewAction"
    /\ HandleKey
    /\ state' # "ReviewAction"

\* the session under the assumptions of a live loop: the loop handles the event
\* at the head of the channel, every spawned task posts its completion event,
\* and the user decides every review
SpecFair ==
    /\ Spec
    /\ WF_vars(HandleApiResponse)
    /\ WF_vars(HandleCommandComplete)
    /\ WF_vars(HandleMcpResult)
    /\ WF_vars(ChatTaskPosts)
    /\ WF_vars(ExecTaskPosts)
    /\ WF_vars(McpTaskPosts)
    /\ WF_vars(ReviewDecision)

\* C26: liveness of the ReAct loop: when tasks post their completions and the
\* user decides every review, a session that has left Input reaches Input
\* again; it never stays for ever in Thinking, Executing or Finalizing (a
\* session is followed until its log is full).
C26_Liveness ==
    [](state # "Input" => <>(state = "Input" \/ ~SessionOpen))

\* the event is an ApiResponse whose reply parses to an allow-listed tool call
IsAllowedToolReply(e) ==
    /\ e.type = "ApiResponse"
    /\ e.arg.ok
    /\ Parse(e.arg.value).kind = "ToolCall"
    /\ is_allowed_tool(Parse(e.arg.value).tc)

\* the screens before the review refuse the tool call
Refused(tc) ==
    \/ is_run_cmd(tc) /\ is_interactive(tc.command)
    \/ tc.tool = "run_python" /\ ~python_available

\* the tool call is under review, flagged exactly when it is dangerous
Reviewed(tc) ==
    /\ state' = "ReviewAction"
    /\ current_tool' = Some(tc)
    /\ dangerous_command_detected' =
          (is_destructive(tc) \/ (is_run_cmd(tc) /\ is_dangerous(tc.command)))

\* confirming a review starts the execution, flagged or not
ConfirmStep ==
    (ev'.type = "Key" /\ ev'.arg = <<"Enter", "ExecuteCommand">> /\ state = "ReviewAction")
        => state' = "Executing"

\* C27 as stated: every allow-listed tool call received in Thinking or
\* Finalizing leads to ReviewAction with that tool call pending and the
\* dangerous flag set exactly for a destructive tool or a dangerous run_cmd.
C27_OriginalStep ==
    (IsAllowedToolReply(ev') /\ state \in {"Thinking", "Finalizing"}) =>
        Reviewed(Parse(ev'.arg.value).tc)

C27_AllowedToReview == [][C27_OriginalStep /\ ConfirmStep]_vars

\* C27, amended: an allow-listed tool call received in Thinking or Finalizing
\* that the interactive screen and the Python screen do not refuse leads to
\* ReviewAction with that tool call pending and the dangerous flag set exactly
\* for a destructive tool or a run_cmd matching a dangerous pattern; the flag
\* blocks neither this transition nor the later confirmation.
C27_Step ==
    (/\ IsAllowedToolReply(ev')
     /\ state \in {"Thinking", "Finalizing"}
     /\ ~Refused(Parse(ev'.arg.value).tc)) =>
        Reviewed(Parse(ev'.arg.value).tc)

C27_ScreenedToReview == [][C27_Step /\ ConfirmStep]_vars

\* a flagged command was confirmed: rm -rf / was put under review with the flag
\* set, and Enter moved the session to Executing
C27_Witness ==
    /\ ev.type = "Key"
    /\ ev.arg = <<"Enter", "ExecuteCommand">>
    /\ ev.from = "ReviewAction"
    /\ state = "Executing"
    /\ dangerous_command_detected
    /\ current_tool = Some(ToolCall("run_cmd", "rm -rf /"))
    /\ messages[Len(messages)] = MessageModel(ToolJson("run_cmd", "rm -rf /"))

----------------------------------------------------------------------------
(* Claim C28, on SpecQuick *)

\* the run was started with -q or -x and no prompt after it
MissingPrompt ==
    LET args == quick.args
        pos == IF Position(args, "-q") # 0 THEN Position(args, "-q") ELSE Position(args, "-x")
    IN pos # 0 /\ (pos + 1 > Len(args) \/ args[pos + 1] = "")

\* C28: in -x mode, whenever the model's tool call was executed, the process
\* exit code is the exit code of the executed action, for every tool kind: the
\* executor's exit code, and for an mcp call 0 exactly when the call succeeded;
\* a missing prompt after -q / -x exits with code 1.
C28_ExitCode ==
    quick.pc = "exited" =>
        /\ MissingPrompt => quick.exit_code = Some(1)
        /\ (quick.execute /\ quick.executed # <<>>) =>
              IF quick.executed = <<"mcp">>
              THEN (quick.exit_code = Some(0)) <=> quick.result.value.success
              ELSE quick.exit_code = Some(quick.result.value.exit_code)

----------------------------------------------------------------------------
(* SpecMcpConfig: the editing methods of McpConfig (src/src/mcp.rs), each      *)
(* ending with save()                                                        *)

\* editing calls made on the configuration
MaxConfigOps == 3

ConfigNames == {"fs", "web"}
EnvKeys == {"K"}
EnvValues == {"v", "w"}

\* HashMap::insert and HashMap::remove
MapInsert(m, k, v) == [x \in DOMAIN m \cup {k} |-> IF x = k THEN v ELSE m[x]]
MapRemove(m, k) == [x \in DOMAIN m \ {k} |-> m[x]]

\* the McpServerConfig that add_server and add_http_server insert
StdioConfig(command) ==
    [transport |-> "stdio", command |-> command, args |-> <<>>,
     env |-> EmptyMap, url |-> None, headers |-> EmptyMap]
HttpConfig(url, headers) ==
    [transport |-> "http", command |-> "", args |-> <<>>,
     env |-> EmptyMap, url |-> Some(url), headers |-> headers]

\* an add that replaces the entry of a name already present
add_server_replace(servers, name, command) ==
    [servers |-> MapInsert(servers, name, StdioConfig(command)), result |-> Ok(UnitValue)]

\* McpConfig::add_server, up to save
add_server(servers, name, command) ==
    IF name \in DOMAIN servers
    THEN [servers |-> servers, result |-> Err("ServerExists")]
    ELSE [servers |-> MapInsert(servers, name, StdioConfig(command)), result |-> Ok(UnitValue)]

\* McpConfig::add_http_server, up to save
add_http_server(servers, name, url, headers) ==
    IF name \in DOMAIN servers
    THEN [servers |-> servers, result |-> Err("ServerExists")]
    ELSE [servers |-> MapInsert(servers, name, HttpConfig(url, headers)),
          result |-> Ok(UnitValue)]

\* McpConfig::set_header, up to save
set_header(servers, name, key, value) ==
    IF name \notin DOMAIN servers
    THEN [servers |-> servers, result |-> Err("ServerNotFound")]
    ELSE [servers |-> [servers EXCEPT ![name].headers = MapInsert(@, key, value)],
          result |-> Ok(UnitValue)]

\* McpConfig::set_env, up to save
set_env(servers, name, key, value) ==
    IF name \notin DOMAIN servers
    THEN [servers |-> servers, result |-> Err("ServerNotFound")]
    ELSE [servers |-> [servers EXCEPT ![name].env = MapInsert(@, key, value)],
          result |-> Ok(UnitValue)]

\* McpConfig::remove_env, up to save
remove_env(servers, name, key) ==
    IF name \notin DOMAIN servers
    THEN [servers |-> servers, result |-> Err("ServerNotFound")]
    ELSE [servers |-> [servers EXCEPT ![name].env = MapRemove(@, key)],
          result |-> Ok(UnitValue)]

\* McpConfig::remove_server, up to save
remove_server(servers, name) ==
    IF name \notin DOMAIN servers
    THEN [servers |-> servers, result |-> Err("ServerNotFound")]
    ELSE [servers |-> MapRemove(servers, name), result |-> Ok(UnitValue)]

\* the editing methods
ConfigOps ==
    {"add_server", "add_http_server", "set_header", "set_env", "remove_env",
     "remove_server"}

\* the method applied to the servers of the configuration
ConfigEdit(op, servers, name, key, value) ==
    CASE op = "add_server" -> add_server(servers, name, "npx")
      [] op = "add_http_server" -> add_http_server(servers, name, "http://h", EmptyMap)
      [] op = "set_header" -> set_header(servers, name, key, value)
      [] op = "set_env" -> set_env(servers, name, key, value)
      [] op = "remove_env" -> remove_env(servers, name, key)
      [] OTHER -> remove_server(servers, name)

config_frame == <<app_vars, loop_vars, quick, processes, mutex, children, wire, threads>>

\* one editing method: the check of the name, the change, then self.save(),
\* which writes the file or fails with an io error
ConfigCall(op) ==
    \E name \in ConfigNames : \E key \in EnvKeys : \E value \in EnvValues :
    \E saved \in BOOLEAN :
        LET e == ConfigEdit(op, config.servers, name, key, value) IN
        /\ config.ops < MaxConfigOps
        /\ config' = [servers |-> e.servers,
                      file |-> IF e.result.ok /\ saved THEN e.servers ELSE config.file,
                      ops |-> config.ops + 1]
        /\ ret' = IF e.result.ok /\ ~saved THEN Err("Io") ELSE e.result
        /\ ev' = [type |-> op, from |-> state,
                  arg |-> [name |-> name, before |-> config.servers]]
        /\ UNCHANGED config_frame

ConfigAddServer == ConfigCall("add_server")
ConfigAddHttpServer == ConfigCall("add_http_server")
ConfigSetHeader == ConfigCall("set_header")
ConfigSetEnv == ConfigCall("set_env")
ConfigRemoveEnv == ConfigCall("remove_env")
ConfigRemoveServer == ConfigCall("remove_server")

\* McpConfig::load: no file, or a file with the stdio server "fs"
InitMcpConfig ==
    /\ InitApp
    /\ messages = <<>>
    /\ safe_mode = FALSE
    /\ python_available = FALSE
    /\ mcp_client = FALSE
    /\ ai_client = None
    /\ queue = <<>>
    /\ chat_tasks = {}
    /\ models_tasks = <<>>
    /\ exec_tasks = {}
    /\ ev = NoEv
    /\ ret = FALSE
    /\ quick = NoQuick
    /\ processes = <<>>
    /\ mutex = 0
    /\ children = <<>>
    /\ wire = <<>>
    /\ threads = <<>>
    /\ \E servers \in {EmptyMap, MapInsert(EmptyMap, "fs", StdioConfig("npx"))} :
          config = [servers |-> servers, file |-> servers, ops |-> 0]

NextMcpConfig ==
    \/ ConfigAddServer
    \/ ConfigAddHttpServer
    \/ ConfigSetHeader
    \/ ConfigSetEnv
    \/ ConfigRemoveEnv
    \/ ConfigRemoveServer

SpecMcpConfig == InitMcpConfig /\ [][NextMcpConfig]_vars

----------------------------------------------------------------------------
(* Claim C29, on SpecMcpConfig *)

Adds == {"add_server", "add_http_server"}
NeedsServer == {"remove_server", "set_env", "remove_env", "set_header"}

\* C29: server names are unique keys of the configuration: an add with a name
\* already present returns ServerExists and leaves the configuration unchanged;
\* remove_server, set_env, remove_env and set_header on a name not present
\* return ServerNotFound and leave it unchanged; a successful add followed by
\* remove_server of the same name leaves the servers as they were before the add.
C29_Step ==
    LET name == ev'.arg.name IN
    /\ (ev'.type \in Adds /\ name \in DOMAIN config.servers) =>
          ret' = Err("ServerExists") /\ config'.servers = config.servers
                                     /\ config'.file = config.file
    /\ (ev'.type \in NeedsServer /\ name \notin DOMAIN config.servers) =>
          ret' = Err("ServerNotFound") /\ config'.servers = config.servers
                                       /\ config'.file = config.file
    /\ (/\ ev.type \in Adds
        /\ ret = Ok(UnitValue)
        /\ ev'.type = "remove_server"
        /\ name = ev.arg.name) =>
          config'.servers = ev.arg.before

C29_UniqueNames == [][C29_Step]_vars

\* the three cases happened in one session: "web" was added to a configuration
\* holding "fs" and removed again, then set_env on "web" was rejected
C29_Witness ==
    /\ ev.type = "set_env"
    /\ ev.arg.name = "web"
    /\ ret = Err("ServerNotFound")
    /\ config.ops = 3
    /\ DOMAIN config.servers = {"fs"}
    /\ config.file = config.servers

----------------------------------------------------------------------------
(* Claim C30, on SpecMcp *)

\* the positions of a tools/call or tools/list, in the order of call_with_retry
\* and restart_server
RestartOrder == <<"first", "stop", "spawn", "insert", "init", "notif", "retry">>

StepIndex(pc) == CHOOSE i \in 1..Len(RestartOrder) : RestartOrder[i] = pc

\* the request written to the server in this step, if one is
Sent(s) == IF wire'[s] = wire[s] THEN None ELSE Some(wire'[s][Len(wire'[s])])

\* C30: one tools/list or tools/call on a stdio server makes at most one restart
\* and at most two attempts of its method; after a failed first attempt its
\* steps come in this order: kill and remove the old process, spawn a new
\* process, send initialize, send notifications/initialized, re-issue the
\* method, to the new process; a successful first attempt causes no restart.
C30_Step ==
    \A t \in Threads :
        LET a == threads[t]
            b == threads'[t]
            s == a.server
        IN
        (/\ a.op \in {"call_tool", "list_tools"}
         /\ a.pc # "idle"
         /\ Transport(s) = "stdio"
         /\ b # a) =>
            \* the steps are taken in order, each once
            /\ \/ b.pc = "idle"
               \/ b.pc = a.pc /\ b.wait /\ ~a.wait
               \/ StepIndex(b.pc) = StepIndex(a.pc) + 1
            \* the first attempt: returns when it succeeds, restarts otherwise
            /\ (a.pc = "first" /\ b.pc # a.pc) =>
                  /\ b.pc = (IF b.first.value.ok THEN "idle" ELSE "stop")
                  /\ children' = children
            \* kill and remove the old process
            /\ a.pc = "stop" =>
                  /\ ~processes'[s].some
                  /\ processes[s].some => children'[processes[s].value.child].killed
            \* spawn and register the new process
            /\ (a.pc = "spawn" /\ b.pc = "insert") =>
                  /\ children' = Append(children, [server |-> s, killed |-> FALSE])
                  /\ b.child = Len(children')
            /\ a.pc = "insert" => processes'[s] = Some(McpProcess(a.child))
            \* the requests: the method twice at most, the handshake in between
            /\ Sent(s).some =>
                  /\ a.pc \in CallPcs
                  /\ Sent(s).value.method = Method(a)
                  /\ Method(a) =
                        CASE a.pc = "init" -> "initialize"
                          [] a.pc = "notif" -> "notifications/initialized"
                          [] a.op = "call_tool" -> "tools/call"
                          [] OTHER -> "tools/list"
                  /\ a.pc \in {"init", "notif", "retry"} => Sent(s).value.child = a.child

C30_RestartOrder == [][C30_Step]_vars

----------------------------------------------------------------------------
(* Claim C31, on SpecMcp *)

\* the requests written to the child, in the order they were written
WrittenTo(s, c) == SelectSeq(wire[s], LAMBDA m : m.child = c)

\* C31: the first request written to a stdio server process is initialize and
\* the second is notifications/initialized, so no tools/list or tools/call is
\* written to a process before both handshake messages, whatever the threads
\* do while start_server or a restart is in progress.
C31_HandshakeFirst ==
    \A s \in StdioServers :
    \A c \in 1..Len(children) :
        LET w == WrittenTo(s, c) IN
        /\ Len(w) >= 1 => w[1].method = "initialize"
        /\ Len(w) >= 2 => w[2].method = "notifications/initialized"

----------------------------------------------------------------------------
(* Claim C32, on SpecMcp *)

\* the positions of restart_server's start_server inside call_with_retry
RestartPcs == {"spawn", "insert", "init", "notif"}

\* C32: when the first attempt of a tools/list or tools/call on a stdio server
\* fails and the restart (start_server with its handshake) fails too, the
\* method is not re-issued and the error returned is the first attempt's.
C32_Step ==
    \A t \in Threads :
        LET a == threads[t]
            b == threads'[t]
        IN
        (/\ a.op \in {"call_tool", "list_tools"}
         /\ a.pc \in RestartPcs
         /\ b.pc = "idle") =>
            /\ a.first.some
            /\ ~a.first.value.ok
            /\ b.ret = a.first
            /\ b.second = None
            /\ Sent(a.server).some =>
                  Sent(a.server).value.method \in {"initialize", "notifications/initialized"}

C32_RestartFails == [][C32_Step]_vars

\* a tools/call whose first attempt timed out and whose restart spawned a new
\* process and then failed in the handshake has returned the timeout
C32_Witness ==
    \E t \in Threads :
        /\ threads[t].op = "call_tool"
        /\ threads[t].pc = "idle"
        /\ threads[t].first = Some(Err("Timeout"))
        /\ threads[t].child # 0
        /\ threads[t].second = None
        /\ threads[t].ret = Some(Err("Timeout"))

----------------------------------------------------------------------------
(* Claim C33, on SpecMcp *)

\* C33: when start_server(name) returns an error (unknown name, spawn failure,
\* failed or timed-out handshake), is_running(name) is false afterwards and the
\* child this start_server spawned, if any, has been killed.
C33_Step ==
    \A t \in Threads :
        LET a == threads[t]
            b == threads'[t]
        IN
        (/\ b # a
         /\ b.op = "start_server"
         /\ b.pc = "idle"
         /\ ~b.ret.value.ok) =>
            /\ ~processes'[b.server].some
            /\ b.child # 0 => children'[b.child].killed

C33_FailedStartCleansUp == [][C33_Step]_vars

----------------------------------------------------------------------------
(* Claim C34, on SpecMcp *)

\* the thread has returned from start_server, tools/call or tools/list on a
\* name that is not configured
UnknownCalled(th) ==
    /\ th.pc = "idle"
    /\ th.op \in {"start_server", "call_tool", "list_tools"}
    /\ th.server \in UnknownServers

\* C34: the keys of the process table are configured servers with stdio
\* transport; is_running(name) returns whether the table has an entry for
\* name, so it returns false for HTTP servers and for names that are not
\* configured; a call on a name that is not configured returns ServerNotFound,
\* spawns nothing and leaves the table as it was.
C34_Step ==
    /\ \A n \in Names : processes'[n].some => n \in StdioServers
    /\ \A t \in Threads :
        LET a == threads[t]
            b == threads'[t]
        IN
        /\ (a.pc = "running" /\ b.pc = "idle") =>
              /\ b.ret = Some(Ok(BoolValue(processes[a.server].some)))
              /\ a.server \notin StdioServers => b.ret = Some(Ok(BoolValue(FALSE)))
              /\ processes' = processes
              /\ children' = children
        /\ (b # a /\ UnknownCalled(b)) =>
              /\ b.ret = Some(Err("ServerNotFound"))
              /\ processes' = processes
              /\ children' = children
              /\ wire' = wire

C34_TableKeys == [][C34_Step]_vars

\* is_running has returned false for an HTTP server while a stdio server is in
\* the table
C34_Witness ==
    /\ \E n \in StdioServers : processes[n].some
    /\ \E t \in Threads :
        /\ threads[t].op = "is_running"
        /\ threads[t].pc = "idle"
        /\ threads[t].server \in HttpServers
        /\ threads[t].ret = Some(Ok(BoolValue(FALSE)))

----------------------------------------------------------------------------
(* Claim C35, on SpecMcp *)

\* C35: stop_server(name) returns Ok; afterwards is_running(name) is false;
\* the entries and the children of all other servers are as before; on a name
\* that is not running (so also on the second of two calls in a row) nothing
\* changes.
C35_Step ==
    \A t \in Threads :
        LET a == threads[t]
            b == threads'[t]
            s == a.server
        IN
        (a.op = "stop_server" /\ a.pc = "stop" /\ b # a) =>
            /\ b.pc = "idle"
            /\ b.ret = Some(Ok(UnitValue))
            /\ ~processes'[s].some
            /\ \A n \in Names \ {s} : processes'[n] = processes[n]
            /\ Len(children') = Len(children)
            /\ \A c \in 1..Len(children) :
                  children'[c] # children[c] =>
                      /\ processes[s].some
                      /\ processes[s].value.child = c
                      /\ children'[c] = [children[c] EXCEPT !.killed = TRUE]
            /\ ~processes[s].some => (processes' = processes /\ children' = children)

C35_StopServer == [][C35_Step]_vars

\* stop_server has returned Ok for a server whose child it found in the table
\* and killed
C35_Witness ==
    \E t \in Threads :
        /\ threads[t].op = "stop_server"
        /\ threads[t].pc = "idle"
        /\ threads[t].ret = Some(Ok(UnitValue))
        /\ ~processes[threads[t].server].some
        /\ \E c \in 1..Len(children) :
              children[c].server = threads[t].server /\ children[c].killed

----------------------------------------------------------------------------
(* Claim C36, on Spec and SpecStale *)

----------------------------------------------------------------------------
(* Claim C37, on Spec *)

\* C37: whenever the event loop waits for its next event, a chat request is
\* outstanding (in flight or its ApiResponse queued) if the state is Thinking
\* or Finalizing, and an execution (executor task or MCP call) is outstanding
\* if the state is Executing, also where there is no LLM client, no MCP
\* client, where the MCP call fails, and in safe mode.
C37_NeverWaitsInVain ==
    /\ state \in {"Thinking", "Finalizing"} => InFlightChats >= 1
    /\ state = "Executing" => InFlightExecs >= 1

----------------------------------------------------------------------------
(* Claim C38, on SpecApp *)

\* C38: submit_input called while the state is not Input returns false and
\* leaves the session state, the message log and the input buffer as they
\* were, for every input, non-empty input included.
C38_Step ==
    (ev'.type = "submit_input" /\ state # "Input") =>
        /\ ret' = FALSE
        /\ state' = state
        /\ messages' = messages
        /\ input_textarea' = input_textarea

C38_SubmitOutsideInput == [][C38_Step]_vars

----------------------------------------------------------------------------
(* Claim C40, on SpecLoop *)

\* the fields of the App other than the log and the spinner frame
AppRest ==
    <<state, input_textarea, action_textarea, error_message,
      dangerous_command_detected, current_tool, running_task,
      safe_mode, python_available, mcp_client>>

\* the tasks and the selected model are as they were; a handled event has left
\* the channel
TasksUnchanged ==
    /\ chat_tasks' = chat_tasks
    /\ exec_tasks' = exec_tasks
    /\ models_tasks' = models_tasks

\* C40: Tick, Resize, CommandCancelled and ModelsResponse never change the
\* session state; Tick changes only spinner_frame, to (spinner_frame + 1) mod
\* 10, so spinner_frame is in 0..9 in every reachable state; Resize and
\* CommandCancelled change nothing; ModelsResponse only appends one
\* system-role message and, when a model name argument matches, changes the
\* selected model.
C40_Step ==
    /\ ev'.type \in {"Tick", "Resize", "CommandCancelled", "ModelsResponse"} =>
          state' = state
    /\ ev'.type = "Tick" =>
          /\ spinner_frame' = (spinner_frame + 1) % 10
          /\ UNCHANGED <<AppRest, messages, loop_vars>>
    /\ ev'.type \in {"Resize", "CommandCancelled"} =>
          UNCHANGED <<app_vars, loop_vars>>
    /\ ev'.type = "ModelsResponse" =>
          LET result == ev'.arg.result
              model_arg == ev'.arg.model_arg
              matched == IF result.ok /\ model_arg.some
                         THEN FindModel(result.value, model_arg.value)
                         ELSE None
          IN
          /\ Len(messages') = Len(messages) + 1
          /\ IsPrefix(messages, messages')
          /\ messages'[Len(messages')].role = "system"
          /\ UNCHANGED <<AppRest, spinner_frame>>
          /\ TasksUnchanged
          /\ ai_client' = IF matched.some THEN matched ELSE ai_client

C40_PassiveEvents ==
    /\ [](spinner_frame \in 0..9)
    /\ [][C40_Step]_vars

\* the spinner is on its last frame and a ModelsResponse has just switched the
\* selected model from g-a to g-b
C40_Witness ==
    /\ spinner_frame = 9
    /\ ev.type = "ModelsResponse"
    /\ ev.arg.model_arg = Some(<<"b">>)
    /\ ai_client = Some(ModelB)
    /\ messages[Len(messages)] = MessageSystem(<<"Switched to: ">> \o ModelB)

----------------------------------------------------------------------------
(* Claim C39, on SpecMcpAll *)

\* the elements of a sequence
Range(q) == { q[i] : i \in DOMAIN q }

\* the names start_all or list_all_tools has a result for
ResultNames(th) == { r[1] : r \in Range(th.results) }

\* C39: start_all returns exactly one status per configured server; where
\* every stdio start succeeds, every configured stdio server is running
\* afterwards, and HTTP servers report Ok without a process.  list_all_tools
\* returns entries only for stdio servers that are running and for configured
\* HTTP servers, has an entry for each of them whose tools/list succeeds and
\* none for those that fail, and never returns an error.
C39_Step ==
    \A t \in Threads :
        LET a == threads[t]
            b == threads'[t]
            returns == a.pc = "next" /\ b.pc = "idle"
        IN
        /\ (returns /\ a.outer = "start_all") =>
              /\ b.ret = Some(Ok([statuses |-> a.results]))
              /\ Len(a.results) = Cardinality(Servers)
              /\ ResultNames(a) = Servers
              /\ \A r \in Range(a.results) :
                    r[1] \in HttpServers =>
                        r[2] = Ok(UnitValue) /\ ~processes[r[1]].some
              /\ (\A r \in Range(a.results) : r[1] \in StdioServers => r[2].ok) =>
                    \A n \in StdioServers : processes[n].some
        /\ (a.pc = "keys" /\ b.pc = "next") =>
              /\ Range(b.stdio_names) = { n \in StdioServers : processes[n].some }
              /\ Len(b.stdio_names) = Cardinality(Range(b.stdio_names))
        /\ (returns /\ a.outer = "list_all_tools") =>
              /\ b.ret = Some(Ok([all_tools |-> a.all_tools]))
              /\ ResultNames(a) = Range(a.stdio_names) \cup HttpServers
              /\ Len(a.results) = Cardinality(ResultNames(a))
              /\ a.all_tools \subseteq Range(a.stdio_names) \cup HttpServers
              /\ a.all_tools = { r[1] : r \in { x \in Range(a.results) : x[2].ok } }

C39_StartAllListAll == [][C39_Step]_vars

\* after a start_all in which every server started, list_all_tools has
\* returned entries for fs and web and none for git, whose tools/list failed
C39_Witness ==
    LET th == threads[Caller] IN
    /\ th.outer = "list_all_tools"
    /\ th.pc = "idle"
    /\ Range(th.stdio_names) = StdioServers
    /\ th.ret = Some(Ok([all_tools |-> {"fs", "web"}]))
    /\ \E r \in Range(th.results) : r[1] = "git" /\ ~r[2].ok

====
